---- MODULE Spec2Model ----
(***************************************************************************)
(* A model of the extraction-and-enrichment pipeline of                    *)
(* gunma-political-funds-ocr: OCRProcessor (src/src/ocr_processor.py) and  *)
(* PayeeEnrichmentService (src/src/payee_enrichment.py).                   *)
(*                                                                         *)
(* Text that the code inspects character by character (coordinate strings, *)
(* file names) is a sequence of one-character strings.  Python values that *)
(* end up in table cells are tagged records (PyStr, PyNum, PyNone).        *)
(***************************************************************************)
EXTENDS Integers, Sequences, FiniteSets, TLC

VARIABLES
    \* ---- _parse_coordinates ------------------------------------------
    tokens,         \* the items the recognizer's area string is made of
    style,          \* how they are written: "flat", "point" or "pointf"
    coord_string,   \* the area string itself, the argument of the call
    coords,         \* what _parse_coordinates returned for that string
    parse_pc,       \* "build" while the string grows, "parsed" afterwards
    \* ---- _crop_and_save_image ----------------------------------------
    box,            \* the 8 integers handed to _crop_and_save_image
    crop_rect,      \* the rectangle given to img.crop, <<>> before the call
    crop_pc,        \* "ready", "cropped" or "failed"
    \* ---- PayeeEnrichmentService --------------------------------------
    cache,          \* self.cache: cache key -> enrichment record
    cache_expiry,   \* self.cache_expiry: cache key -> time of expiry
    now,            \* datetime.now(), in hours
    last_call,      \* the last enrich_payee_info call and what it did
    \* ---- process_folder -----------------------------------------------
    listing,        \* os.listdir(folder_path)
    form_type,      \* the form type of the run
    extract_receipts,
    analyze_receipts,
    receipt_analyzer,   \* is self.receipt_analyzer set?
    file_idx,       \* the place of the for loop in the listing
    results,        \* the rows collected so far
    row_src,        \* for each row, <<place of its file, index of its document or page>>
    recognized,     \* the process_single_image calls: file and result
    crops,          \* the _crop_and_save_image calls
    analyses,       \* the analyze_receipt_image calls
    df,             \* the returned table, once the loop is over
    folder_pc,      \* "loop" or "done"
    \* ---- single calls ------------------------------------------------
    last_recognition,   \* the last process_single_image call and what it did
    last_analysis,      \* the last analyze_receipt_image call and what it did
    last_stats,         \* the last export_cache_stats call and what it reported
    retry_run,          \* a call of a function wrapped by retry (src/src/utils.py)
    batch_run           \* a call of batch_enrich_payees

coordVars == <<tokens, style, coord_string, coords, parse_pc>>
cropVars  == <<box, crop_rect, crop_pc>>
cacheVars == <<cache, cache_expiry, now, last_call>>
folderVars == <<listing, form_type, extract_receipts, analyze_receipts,
                receipt_analyzer, file_idx, results, row_src, recognized,
                crops, analyses, df, folder_pc>>
callVars  == <<last_recognition, last_analysis, last_stats, retry_run, batch_run>>
vars      == <<coordVars, cropVars, cacheVars, folderVars, callVars>>

(***************************************************************************)
(* Generic helpers for text.                                               *)
(***************************************************************************)
Digits == <<"0", "1", "2", "3", "4", "5", "6", "7", "8", "9">>

IsDigit(c) == \E i \in 1..10 : Digits[i] = c

DigitVal(c) == (CHOOSE i \in 1..10 : Digits[i] = c) - 1

IsSpace(c) == c \in {" ", "\n", "\t"}

RECURSIVE Concat(_)
Concat(ss) == IF ss = <<>> THEN <<>> ELSE Head(ss) \o Concat(Tail(ss))

\* Python: sub in s
Contains(s, sub) ==
    \E i \in 1..(Len(s) - Len(sub) + 1) : SubSeq(s, i, i + Len(sub) - 1) = sub

\* Python: str(n) for a natural number n
RECURSIVE NatToStr(_)
NatToStr(n) ==
    IF n < 10 THEN <<Digits[n + 1]>>
    ELSE NatToStr(n \div 10) \o <<Digits[(n % 10) + 1]>>

\* The value of a non-empty run of decimal digits
RECURSIVE DigitsToNat(_)
DigitsToNat(ds) ==
    IF Len(ds) = 1 THEN DigitVal(ds[1])
    ELSE 10 * DigitsToNat(SubSeq(ds, 1, Len(ds) - 1)) + DigitVal(ds[Len(ds)])

\* Python: s.split(sep) for a one-character separator
RECURSIVE SplitFrom(_, _, _)
SplitFrom(s, sep, cur) ==
    IF s = <<>> THEN <<cur>>
    ELSE IF Head(s) = sep THEN <<cur>> \o SplitFrom(Tail(s), sep, <<>>)
    ELSE SplitFrom(Tail(s), sep, Append(cur, Head(s)))

Split(s, sep) == SplitFrom(s, sep, <<>>)

\* Python: s.strip() (of blanks)
RECURSIVE LStrip(_)
LStrip(s) == IF s # <<>> /\ IsSpace(Head(s)) THEN LStrip(Tail(s)) ELSE s

RECURSIVE RStrip(_)
RStrip(s) ==
    IF s # <<>> /\ IsSpace(s[Len(s)]) THEN RStrip(SubSeq(s, 1, Len(s) - 1)) ELSE s

Strip(s) == RStrip(LStrip(s))

\* The length of the longest run of digits of s that starts at position i
RECURSIVE DigitRun(_, _)
DigitRun(s, i) ==
    IF i <= Len(s) /\ IsDigit(s[i]) THEN 1 + DigitRun(s, i + 1) ELSE 0

(***************************************************************************)
(* Python's int(x) on a string: blanks around it are ignored, an optional  *)
(* sign, then decimal digits only.  Anything else raises ValueError.       *)
(***************************************************************************)
IntBody(t) == IF t # <<>> /\ Head(t) \in {"+", "-"} THEN Tail(t) ELSE t

PyIntOk(tok) ==
    LET b == IntBody(Strip(tok))
    IN  b # <<>> /\ \A i \in 1..Len(b) : IsDigit(b[i])

PyInt(tok) ==
    LET t == Strip(tok)
        n == DigitsToNat(IntBody(t))
    IN  IF Head(t) = "-" THEN 0 - n ELSE n

(***************************************************************************)
(* re.findall(r'[xy]=(\d+(?:\.\d+)?)', s): the captured groups of the      *)
(* non-overlapping matches, leftmost first.                                *)
(***************************************************************************)
\* The length of the capture of a match that starts at i, 0 when none does
CaptureLen(s, i) ==
    IF i + 2 <= Len(s) /\ s[i] \in {"x", "y"} /\ s[i + 1] = "=" /\ IsDigit(s[i + 2])
    THEN LET w == DigitRun(s, i + 2)
             f == IF i + 2 + w <= Len(s) /\ s[i + 2 + w] = "."
                  THEN DigitRun(s, i + 3 + w) ELSE 0
         IN  IF f > 0 THEN w + 1 + f ELSE w
    ELSE 0

RECURSIVE FindAllFrom(_, _)
FindAllFrom(s, i) ==
    IF i > Len(s) THEN <<>>
    ELSE LET n == CaptureLen(s, i)
         IN  IF n > 0
             THEN <<SubSeq(s, i + 2, i + 1 + n)>> \o FindAllFrom(s, i + 2 + n)
             ELSE FindAllFrom(s, i + 1)

FindAll(s) == FindAllFrom(s, 1)

\* Python: int(float(x)) for a capture of the pattern: the digits before
\* the point (truncation toward zero of a non-negative decimal)
IntOfFloat(cap) == DigitsToNat(SubSeq(cap, 1, DigitRun(cap, 1)))

(***************************************************************************)
(* OCRProcessor._parse_coordinates.  None is the empty sequence: the code  *)
(* returns a list only when it has exactly 8 elements.                     *)
(***************************************************************************)
None == <<>>

PointMarker == <<"P", "o", "i", "n", "t", "(">>

\* A variant that converts the captures with int() instead of int(float())
ParseCoordinates_IntOnly(cstr) ==
    IF Contains(cstr, PointMarker)
    THEN LET matches == FindAll(cstr)
         IN  IF \E i \in 1..Len(matches) : ~PyIntOk(matches[i])
             THEN None
             ELSE IF Len(matches) = 8
                  THEN [i \in 1..Len(matches) |-> PyInt(matches[i])]
                  ELSE None
    ELSE LET toks == Split(cstr, ",")
         IN  IF \E i \in 1..Len(toks) : ~PyIntOk(toks[i])
             THEN None
             ELSE LET cs == [i \in 1..Len(toks) |-> PyInt(toks[i])]
                  IN  IF Len(cs) = 8 THEN cs ELSE None

\* A variant whose flat branch does not check the number of tokens
ParseCoordinates_NoLenCheck(cstr) ==
    IF Contains(cstr, PointMarker)
    THEN LET matches == FindAll(cstr)
             cs == [i \in 1..Len(matches) |-> IntOfFloat(matches[i])]
         IN  IF matches # <<>> /\ Len(cs) = 8 THEN cs ELSE None
    ELSE LET toks == Split(cstr, ",")
         IN  IF \E i \in 1..Len(toks) : ~PyIntOk(toks[i])
             THEN None
             ELSE [i \in 1..Len(toks) |-> PyInt(toks[i])]

ParseCoordinates(cstr) ==
    IF Contains(cstr, PointMarker)
    THEN LET matches == FindAll(cstr)
             cs == [i \in 1..Len(matches) |-> IntOfFloat(matches[i])]
         IN  IF matches # <<>> /\ Len(cs) = 8 THEN cs ELSE None
    ELSE LET toks == Split(cstr, ",")
         IN  IF \E i \in 1..Len(toks) : ~PyIntOk(toks[i])
             THEN None       \* int() raises, the except clause logs
             ELSE LET cs == [i \in 1..Len(toks) |-> PyInt(toks[i])]
                  IN  IF Len(cs) = 8 THEN cs ELSE None

(***************************************************************************)
(* The area strings the parser is given.  An item is a number (an int, or  *)
(* a float with one fractional digit when frac >= 0) or a piece of text    *)
(* that is no number.  The flat form writes the items separated by commas  *)
(* (docstring, line 341); the point form writes each pair of items as      *)
(* Point(x=.., y=..), the str() of the recognizer's points joined by       *)
(* commas (lines 138 and 347).  "pointf" is the point form of numbers held *)
(* as floats, which Python prints with a fractional part.                  *)
(***************************************************************************)
Num(neg, whole, frac) == [k |-> "num", neg |-> neg, whole |-> whole, frac |-> frac, text |-> <<>>]

Junk(text) == [k |-> "junk", neg |-> FALSE, whole |-> 0, frac |-> -1, text |-> text]

IsNum(t) == t.k = "num"

IsNatInt(t) == t.k = "num" /\ ~t.neg /\ t.frac = -1

\* Python: str(v) of an int, or of a float when asFloat or when v has a fraction
ItemStr(t, asFloat) ==
    IF t.k = "junk" THEN t.text
    ELSE (IF t.neg THEN <<"-">> ELSE <<>>)
         \o NatToStr(t.whole)
         \o (IF t.frac >= 0 THEN <<".", Digits[t.frac + 1]>>
             ELSE IF asFloat THEN <<".", "0">> ELSE <<>>)

RECURSIVE Join(_, _)
Join(ss, sep) ==
    IF ss = <<>> THEN <<>>
    ELSE IF Len(ss) = 1 THEN ss[1]
    ELSE ss[1] \o sep \o Join(Tail(ss), sep)

FlatEncode(ts) == Join([i \in 1..Len(ts) |-> ItemStr(ts[i], FALSE)], <<",">>)

PointStr(ts, p, asFloat) ==
    PointMarker \o <<"x", "=">> \o ItemStr(ts[2 * p - 1], asFloat)
    \o (IF 2 * p <= Len(ts)
        THEN <<",", " ", "y", "=">> \o ItemStr(ts[2 * p], asFloat)
        ELSE <<>>)
    \o <<")">>

PointEncode(ts, asFloat) ==
    Join([p \in 1..((Len(ts) + 1) \div 2) |-> PointStr(ts, p, asFloat)], <<",">>)

Encode(st, ts) ==
    IF st = "flat" THEN FlatEncode(ts)
    ELSE PointEncode(ts, st = "pointf")

Styles == {"flat", "point", "pointf"}

\* The numbers a well-formed box is made of, and the items that are not
CoordValues == {10, 50}

PlainItems == {Num(FALSE, v, -1) : v \in CoordValues}

OddItems ==
    { Num(FALSE, 10, 0), Num(FALSE, 10, 5), Num(TRUE, 3, -1),
      Junk(<<"x">>), Junk(<<>>) }

MaxTokens == 9

HasOdd(ts) == \E i \in 1..Len(ts) : ts[i] \in OddItems

(***************************************************************************)
(* The parser's specification: an area string is put together item by item *)
(* (the environment), then _parse_coordinates is called on it.             *)
(***************************************************************************)
AppendItem(t) ==
    /\ parse_pc = "build"
    /\ Len(tokens) < MaxTokens
    /\ t \in OddItems => ~HasOdd(tokens)
    /\ tokens' = Append(tokens, t)
    /\ coord_string' = Encode(style, tokens')
    /\ UNCHANGED <<style, coords, parse_pc, cropVars, cacheVars, folderVars, callVars>>

ParseCall ==
    /\ parse_pc = "build"
    /\ coords' = ParseCoordinates(coord_string)
    /\ parse_pc' = "parsed"
    /\ UNCHANGED <<tokens, style, coord_string, cropVars, cacheVars, folderVars, callVars>>

(***************************************************************************)
(* OCRProcessor._crop_and_save_image: the rectangle handed to img.crop.    *)
(***************************************************************************)
\* Python: coords[0::2] and coords[1::2]
EvenSlice(cs) == [i \in 1..(Len(cs) \div 2) |-> cs[2 * i - 1]]

OddSlice(cs) == [i \in 1..(Len(cs) \div 2) |-> cs[2 * i]]

\* Python: min(xs) and max(xs) of a non-empty list, scanning left to right
RECURSIVE PyMin(_)
PyMin(xs) ==
    IF Len(xs) = 1 THEN xs[1]
    ELSE LET m == PyMin(Tail(xs)) IN IF m < xs[1] THEN m ELSE xs[1]

RECURSIVE PyMax(_)
PyMax(xs) ==
    IF Len(xs) = 1 THEN xs[1]
    ELSE LET m == PyMax(Tail(xs)) IN IF m > xs[1] THEN m ELSE xs[1]

\* A variant that takes the first and third points for the corners
CropRect_Corners(cs) == <<cs[1], cs[2], cs[5], cs[6]>>

\* (left, top, right, bottom)
CropRect(cs) ==
    LET x_coords == EvenSlice(cs)
        y_coords == OddSlice(cs)
    IN  <<PyMin(x_coords), PyMin(y_coords), PyMax(x_coords), PyMax(y_coords)>>

MaxCoord == 2

\* Pixel coordinates: multiples of 10, with the 10 and 50 of the example
PixelValues == {10 * k : k \in 1..MaxCoord} \cup {50}

\* Image.open, img.crop and cropped.save all succeed
CropAndSave ==
    /\ crop_pc = "ready"
    /\ crop_rect' = CropRect(box)
    /\ crop_pc' = "cropped"
    /\ UNCHANGED <<box, coordVars, cacheVars, folderVars, callVars>>

\* Image.open or cropped.save raises: the except clause logs, nothing is cropped
CropFails ==
    /\ crop_pc = "ready"
    /\ crop_pc' = "failed"
    /\ UNCHANGED <<box, crop_rect, coordVars, cacheVars, folderVars, callVars>>

(***************************************************************************)
(* PayeeEnrichmentService (src/src/payee_enrichment.py).  The sentinel     *)
(* strings of the code are Japanese; ERR stands for the error sentinel of  *)
(* line 108, UNKNOWN for the default of line 88 and FETCH_ERROR for the    *)
(* text of line 109.                                                       *)
(***************************************************************************)
ERR == "ERROR"

UNKNOWN == "UNKNOWN"

FETCH_ERROR == "FETCH_ERROR"

EmptyMap == [k \in {} |-> ""]

\* Python: d.get(k, default)
Get(d, k, default) == IF k \in DOMAIN d THEN d[k] ELSE default

\* Python: d[k] = v
Put(d, k, v) == [x \in DOMAIN d \cup {k} |-> IF x = k THEN v ELSE d[x]]

\* cache_key = f"{payee_name}_{payee_address}"
CacheKey(payee_name, payee_address) == payee_name \o "_" \o payee_address

\* timedelta(hours=24)
CacheHours == 24

\* The record built from a parsed answer, stamped at time t
EnrichedInfo(result, t) ==
    [ business_type        |-> Get(result, "business_type", UNKNOWN),
      business_description |-> Get(result, "business_description", ""),
      establishment_year   |-> Get(result, "establishment_year", ""),
      capital              |-> Get(result, "capital", ""),
      employees            |-> Get(result, "employees", ""),
      website              |-> Get(result, "website", ""),
      notes                |-> Get(result, "notes", ""),
      enrichment_date      |-> t ]

\* A variant whose error record leaves business_description empty
ErrorInfo_EmptyDescription(msg, t) ==
    [ business_type        |-> ERR,
      business_description |-> "",
      establishment_year   |-> "",
      capital              |-> "",
      employees            |-> "",
      website              |-> "",
      notes                |-> msg,
      enrichment_date      |-> t ]

\* The record returned from the except clause for the exception text msg
ErrorInfo(msg, t) ==
    [ business_type        |-> ERR,
      business_description |-> FETCH_ERROR,
      establishment_year   |-> "",
      capital              |-> "",
      employees            |-> "",
      website              |-> "",
      notes                |-> msg,
      enrichment_date      |-> t ]

\* A variant that still serves an entry at the very hour it expires
CacheHit_Inclusive(key, t) ==
    /\ key \in DOMAIN cache
    /\ key \in DOMAIN cache_expiry
    /\ t <= cache_expiry[key]

\* Is the entry of key served to a caller that uses the cache at time t?
CacheHit(key, t) ==
    /\ key \in DOMAIN cache
    /\ key \in DOMAIN cache_expiry      \* .get(key, datetime.min)
    /\ t < cache_expiry[key]

(***************************************************************************)
(* The environment of the service: who is looked up, what the external     *)
(* model answers and how the clock moves.                                  *)
(***************************************************************************)
PayeeNames == {"a", "a_b"}

PayeeAddresses == {"c", "b_c"}

\* What chat.completions.create and json.loads make of one request
Responses ==
    { [kind |-> "json", msg |-> "",
       obj |-> [business_type |-> "retail", business_description |-> "shop",
                establishment_year |-> "1990", capital |-> "", employees |-> "",
                website |-> "", notes |-> ""]],
      [kind |-> "json", msg |-> "", obj |-> [business_description |-> "cafe"]],
      [kind |-> "raise", msg |-> "connection error", obj |-> EmptyMap],
      [kind |-> "malformed", msg |-> "Expecting value", obj |-> EmptyMap] }

TickHours == 12

MaxTime == 36

NoCall ==
    [ name |-> "", address |-> "", use_cache |-> FALSE, at |-> -1,
      requested |-> FALSE, stored |-> FALSE, ret |-> EmptyMap ]

\* A variant that stores the error record of a failed request as well
CacheAfter_StoresErrors(key, resp, t) ==
    IF resp.kind = "json" THEN Put(cache, key, EnrichedInfo(resp.obj, t))
    ELSE Put(cache, key, ErrorInfo(resp.msg, t))

\* The cache after a request made for key was answered by resp at time t
CacheAfter(key, resp, t) ==
    IF resp.kind = "json" THEN Put(cache, key, EnrichedInfo(resp.obj, t)) ELSE cache

\* A variant that leaves the expiry of a key that already has one
ExpiryAfter_KeepsExisting(key, resp, t) ==
    IF resp.kind = "json" /\ key \notin DOMAIN cache_expiry
    THEN Put(cache_expiry, key, t + CacheHours) ELSE cache_expiry

ExpiryAfter(key, resp, t) ==
    IF resp.kind = "json" THEN Put(cache_expiry, key, t + CacheHours) ELSE cache_expiry

\* enrich_payee_info(payee_name, payee_address, use_cache); when a request
\* is made the external model answers resp after d hours
EnrichPayeeInfo(payee_name, payee_address, use_cache, resp, d) ==
    LET cache_key == CacheKey(payee_name, payee_address)
        hit == use_cache /\ CacheHit(cache_key, now)
        t == now + d
        event(requested, stored, ret) ==
            [ name |-> payee_name, address |-> payee_address,
              use_cache |-> use_cache, at |-> now,
              requested |-> requested, stored |-> stored, ret |-> ret ]
    IN  /\ IF hit
           THEN /\ d = 0
                /\ last_call' = event(FALSE, FALSE, cache[cache_key])
                /\ UNCHANGED <<cache, cache_expiry, now>>
           ELSE /\ t <= MaxTime
                /\ now' = t
                /\ cache' = CacheAfter(cache_key, resp, t)
                /\ cache_expiry' = ExpiryAfter(cache_key, resp, t)
                /\ last_call' =
                     IF resp.kind = "json"
                     THEN event(TRUE, TRUE, EnrichedInfo(resp.obj, t))
                     ELSE event(TRUE, FALSE, ErrorInfo(resp.msg, t))
        /\ UNCHANGED <<coordVars, cropVars, folderVars>>

\* A variant that counts an entry as active at the very hour it expires
ExportCacheStats_Inclusive ==
    LET active_cache == Cardinality({key \in DOMAIN cache_expiry : now <= cache_expiry[key]})
    IN  [ total_cached  |-> Cardinality(DOMAIN cache),
          active_cache  |-> active_cache,
          expired_cache |-> Cardinality(DOMAIN cache) - active_cache ]

\* What export_cache_stats returns in the current state
ExportCacheStats ==
    LET active_cache == Cardinality({key \in DOMAIN cache_expiry : now < cache_expiry[key]})
    IN  [ total_cached  |-> Cardinality(DOMAIN cache),
          active_cache  |-> active_cache,
          expired_cache |-> Cardinality(DOMAIN cache) - active_cache ]

NoStats ==
    [ called |-> FALSE, at |-> -1,
      stats |-> [total_cached |-> 0, active_cache |-> 0, expired_cache |-> 0] ]

\* export_cache_stats(): reads the maps and the clock, changes nothing
ExportCacheStatsCall ==
    /\ last_stats' = [called |-> TRUE, at |-> now, stats |-> ExportCacheStats]
    /\ UNCHANGED <<last_recognition, last_analysis, retry_run, batch_run, coordVars, cropVars,
                   cacheVars, folderVars>>

\* Time passes between two calls
Tick ==
    /\ now + TickHours <= MaxTime
    /\ now' = now + TickHours
    /\ UNCHANGED <<cache, cache_expiry, last_call, coordVars, cropVars, folderVars, callVars>>

(***************************************************************************)
(* ReceiptAnalyzer.analyze_receipt_image (src/src/receipt_analyzer.py).    *)
(* The analyzer has an enrichment service of its own, whose cache and      *)
(* clock are the variables above.  A dict of the vision model's answer is  *)
(* a function from keys to strings, as the records of the service are.     *)
(***************************************************************************)
AnalysisFields ==
    << "payee_name", "payee_address", "payment_date", "payment_purpose",
       "validity_score", "validity_reason", "payee_detail", "transparency_score",
       "alternative_suggestion", "news_value_potential_score",
       "news_value_potential_reason" >>

\* An except clause that forgets the last of the fields
AnalyzerErrorRecord_TenFields ==
    [k \in {AnalysisFields[i] : i \in 1..10} |-> ERR]

\* lines 212-224: the record of the except clause
AnalyzerErrorRecord ==
    [k \in {AnalysisFields[i] : i \in 1..11} |-> ERR]

\* What _encode_image, chat.completions.create and json.loads make of one
\* call: an exception of the request, a content that is no JSON, a JSON
\* value that is no object, or the object obj
VisionResponses ==
    { [kind |-> "raise", obj |-> EmptyMap],
      [kind |-> "malformed", obj |-> EmptyMap],
      [kind |-> "notdict", obj |-> EmptyMap],
      [kind |-> "json",
       obj |-> [payee_name |-> "a", payee_address |-> "c", payment_date |-> "d",
                payment_purpose |-> "p", payee_detail |-> "own"]],
      [kind |-> "json", obj |-> [payee_name |-> "a_b", payment_purpose |-> "p"]],
      [kind |-> "json", obj |-> [payee_name |-> "", payee_detail |-> "own"]],
      [kind |-> "json", obj |-> [payee_name |-> UNKNOWN, payee_detail |-> "own"]],
      [kind |-> "json", obj |-> [payee_name |-> ERR, payee_address |-> "c"]],
      [kind |-> "json", obj |-> [payee_detail |-> "own"]] }

\* What the external model answers to the enrichment request of the analyzer
AnalyzerEnrichResponses ==
    {r \in Responses : r.kind # "malformed"}
    \cup { [kind |-> "json", msg |-> "",
            obj |-> [business_type |-> "", business_description |-> "",
                     establishment_year |-> "", website |-> ""]],
           [kind |-> "json", msg |-> "",
            obj |-> [business_type |-> "", website |-> "w"]] }

\* The exception raised inside the try block, "" when there is none:
\* _encode_image (line 73), the request (line 161), json.loads (line 183),
\* result.get on a value that is no dict (line 186)
AnalysisFailure(encode_ok, vresp) ==
    IF ~encode_ok THEN "encode"
    ELSE IF vresp.kind = "raise" THEN "request"
    ELSE IF vresp.kind = "malformed" THEN "json"
    ELSE IF vresp.kind = "notdict" THEN "get"
    ELSE ""

\* A condition that looks at the emptiness of the name only
InvokesEnrichment_AnyName(encode_ok, vresp) ==
    /\ AnalysisFailure(encode_ok, vresp) = ""
    /\ Get(vresp.obj, "payee_name", "") # ""

\* line 189: is the enrichment service called?
InvokesEnrichment(encode_ok, vresp) ==
    /\ AnalysisFailure(encode_ok, vresp) = ""
    /\ Get(vresp.obj, "payee_name", "") # ""
    /\ Get(vresp.obj, "payee_name", "") # UNKNOWN
    /\ Get(vresp.obj, "payee_name", "") # ERR

\* Python: sep.join(parts), for strings
RECURSIVE JoinStr(_, _)
JoinStr(parts, sep) ==
    IF parts = <<>> THEN ""
    ELSE IF Len(parts) = 1 THEN parts[1]
    ELSE parts[1] \o sep \o JoinStr(Tail(parts), sep)

\* lines 195-203: payee_detail_parts; the labels stand for the Japanese ones
PayeeDetailParts(enriched_info) ==
    (IF Get(enriched_info, "business_type", "") # ""
     THEN <<"type: " \o enriched_info["business_type"]>> ELSE <<>>)
    \o (IF Get(enriched_info, "business_description", "") # ""
        THEN <<"desc: " \o enriched_info["business_description"]>> ELSE <<>>)
    \o (IF Get(enriched_info, "establishment_year", "") # ""
        THEN <<"est: " \o enriched_info["establishment_year"]>> ELSE <<>>)
    \o (IF Get(enriched_info, "website", "") # ""
        THEN <<"Web: " \o enriched_info["website"]>> ELSE <<>>)

\* line 205
MergePayeeDetail(result, enriched_info) ==
    Put(result, "payee_detail",
        IF PayeeDetailParts(enriched_info) # <<>>
        THEN JoinStr(PayeeDetailParts(enriched_info), " / ")
        ELSE Get(result, "payee_detail", ""))

\* lines 71-224: what a call does and returns; enriched_info is what the
\* enrichment service returned, when it was called
AnalysisOf(encode_ok, vresp, enriched_info) ==
    [ encode_ok |-> encode_ok,
      vresp |-> vresp,
      failure |-> AnalysisFailure(encode_ok, vresp),
      logged |-> AnalysisFailure(encode_ok, vresp) # "",
      escaped |-> "",
      enriched |-> InvokesEnrichment(encode_ok, vresp),
      enriched_info |-> IF InvokesEnrichment(encode_ok, vresp) THEN enriched_info ELSE EmptyMap,
      ret |-> IF AnalysisFailure(encode_ok, vresp) # "" THEN AnalyzerErrorRecord
              ELSE IF InvokesEnrichment(encode_ok, vresp)
              THEN MergePayeeDetail(vresp.obj, enriched_info)
              ELSE vresp.obj ]

\* The calls there are: the answer to the enrichment request matters only
\* when the request is made, the answer of the vision model only when the
\* image was encoded
AnalyzerEvents ==
    { [encode_ok |-> FALSE, vresp |-> v, eresp |-> e] :
        v \in {x \in VisionResponses : x.kind = "raise"},
        e \in {x \in AnalyzerEnrichResponses : x.kind = "raise"} }
    \cup { [encode_ok |-> TRUE, vresp |-> v, eresp |-> e] :
        v \in {x \in VisionResponses : ~InvokesEnrichment(TRUE, x)},
        e \in {x \in AnalyzerEnrichResponses : x.kind = "raise"} }
    \cup { [encode_ok |-> TRUE, vresp |-> v, eresp |-> e] :
        v \in {x \in VisionResponses : InvokesEnrichment(TRUE, x)},
        e \in AnalyzerEnrichResponses }

\* Before any call
NoAnalysis ==
    [ encode_ok |-> FALSE, vresp |-> [kind |-> "none", obj |-> EmptyMap], failure |-> "",
      logged |-> FALSE, escaped |-> "", enriched |-> FALSE, enriched_info |-> EmptyMap,
      ret |-> EmptyMap ]

\* analyze_receipt_image(image_path): the whole call, the call of the
\* enrichment service included; eresp is the answer to its request
AnalyzeReceiptImage(encode_ok, vresp, eresp) ==
    IF InvokesEnrichment(encode_ok, vresp)
    THEN /\ EnrichPayeeInfo(Get(vresp.obj, "payee_name", ""),
                            Get(vresp.obj, "payee_address", ""), TRUE, eresp, 0)
         /\ last_analysis' = AnalysisOf(encode_ok, vresp, last_call'.ret)
         /\ UNCHANGED <<last_recognition, last_stats, retry_run, batch_run>>
    ELSE /\ last_analysis' = AnalysisOf(encode_ok, vresp, EmptyMap)
         /\ UNCHANGED <<last_recognition, last_stats, retry_run, batch_run, coordVars, cropVars,
                        cacheVars, folderVars>>

(***************************************************************************)
(* Python values and dicts.  A dict is the sequence of its items in        *)
(* insertion order, each item a record [k |-> key, v |-> value].           *)
(***************************************************************************)
PyStr(chars) == [t |-> "str", s |-> chars, n |-> 0]

PyNum(i) == [t |-> "int", s |-> <<>>, n |-> i]

PyNone == [t |-> "none", s |-> <<>>, n |-> 0]

\* Python: bool(v)
Truthy(v) == (v.t = "str" /\ v.s # <<>>) \/ (v.t = "int" /\ v.n # 0)

Keys(d) == [i \in 1..Len(d) |-> d[i].k]

\* Python: k in d
HasKey(d, k) == \E i \in 1..Len(d) : d[i].k = k

\* Python: d[k], for a key of d
Lookup(d, k) == d[CHOOSE i \in 1..Len(d) : d[i].k = k].v

\* Python: d[k] = v, which keeps the place of a key that is there already
DictSet(d, k, v) ==
    IF HasKey(d, k)
    THEN [i \in 1..Len(d) |-> IF d[i].k = k THEN [k |-> k, v |-> v] ELSE d[i]]
    ELSE Append(d, [k |-> k, v |-> v])

\* Python: d.get(k, default)
DictGet(d, k, default) == IF HasKey(d, k) THEN Lookup(d, k) ELSE default

(***************************************************************************)
(* File names (process_folder, lines 183-233).                             *)
(***************************************************************************)
UpperCase == <<"A", "B", "C", "D", "E", "F", "G", "H", "I", "J", "K", "L", "M",
               "N", "O", "P", "Q", "R", "S", "T", "U", "V", "W", "X", "Y", "Z">>

LowerCase == <<"a", "b", "c", "d", "e", "f", "g", "h", "i", "j", "k", "l", "m",
               "n", "o", "p", "q", "r", "s", "t", "u", "v", "w", "x", "y", "z">>

\* The lower-case letter of every upper-case letter
LowerOf ==
    [c \in {UpperCase[i] : i \in 1..26} |-> LowerCase[CHOOSE i \in 1..26 : UpperCase[i] = c]]

LowerChar(c) == IF c \in DOMAIN LowerOf THEN LowerOf[c] ELSE c

\* Python: s.lower()
Lower(s) == [i \in 1..Len(s) |-> LowerChar(s[i])]

\* Python: s.endswith(suffix)
EndsWith(s, suffix) ==
    Len(suffix) <= Len(s) /\ SubSeq(s, Len(s) - Len(suffix) + 1, Len(s)) = suffix

supported_extensions ==
    << <<".", "p", "n", "g">>, <<".", "j", "p", "g">>,
       <<".", "j", "p", "e", "g">>, <<".", "p", "d", "f">> >>

\* The filter without lower(): the extension is compared as it is written
IsSupported_CaseSensitive(filename) ==
    \E i \in 1..Len(supported_extensions) :
        EndsWith(filename, supported_extensions[i])

\* filename.lower().endswith(supported_extensions)
IsSupported(filename) ==
    LET lowered == Lower(filename)
    IN  \E i \in 1..Len(supported_extensions) : EndsWith(lowered, supported_extensions[i])

\* Python: os.path.splitext(filename)[0], the name up to its last dot; a
\* name whose only dots lead it has no extension
LastDot(s) ==
    IF \E i \in 1..Len(s) : s[i] = "."
    THEN CHOOSE i \in 1..Len(s) : s[i] = "." /\ \A j \in (i + 1)..Len(s) : s[j] # "."
    ELSE 0

SplitExtRoot(s) ==
    LET d == LastDot(s)
    IN  IF d > 0 /\ \E j \in 1..(d - 1) : s[j] # "." THEN SubSeq(s, 1, d - 1) ELSE s

PagePrefix == <<"p", "a", "g", "e", "_">>

\* re.search(r'page_(\d+)', filename): the value for page_number_on_pdf
PageMatches(s) ==
    {i \in 1..(Len(s) - 5) : SubSeq(s, i, i + 4) = PagePrefix /\ DigitRun(s, i + 5) > 0}

PageNumberOnPdf(filename) ==
    IF PageMatches(filename) = {} THEN PyNone
    ELSE LET i == CHOOSE j \in PageMatches(filename) : \A m \in PageMatches(filename) : j <= m
         IN  PyNum(DigitsToNat(SubSeq(filename, i + 5, i + 4 + DigitRun(filename, i + 5))))

\* f"{base_name}_receipt_{doc_idx}.jpg"
ReceiptFilename(filename, doc_idx) ==
    SplitExtRoot(filename)
    \o <<"_", "r", "e", "c", "e", "i", "p", "t", "_">>
    \o NatToStr(doc_idx)
    \o <<".", "j", "p", "g">>

(***************************************************************************)
(* OCRProcessor._call_azure_api: the result made of the API's response.    *)
(* A response has documents, each with fields in the API's order, and      *)
(* pages.  A field of the API has a value_string, a content (either may be *)
(* empty) and the polygon of its first bounding region, a list of numbers  *)
(* taken in pairs as points (empty when there is none).                    *)
(***************************************************************************)
ApiField(name, value_string, content, polygon) ==
    [name |-> name, value_string |-> value_string, content |-> content, polygon |-> polygon]

\* lines 125-130
FieldValue(f) ==
    IF f.value_string # <<>> THEN PyStr(f.value_string)
    ELSE IF f.content # <<>> THEN PyStr(f.content)
    ELSE PyNone

\* lines 124-138: the fields dict after the first n fields of the document
RECURSIVE DocFields(_, _)
DocFields(fs, n) ==
    IF n = 0 THEN <<>>
    ELSE LET f == fs[n]
             d == DictSet(DocFields(fs, n - 1), f.name, FieldValue(f))
         IN  IF f.name = "receipt_image" /\ f.polygon # <<>>
             THEN DictSet(d, "receipt_image_area", PyStr(PointEncode(f.polygon, TRUE)))
             ELSE d

DocData(doc) == [doc_type |-> doc.doc_type, fields |-> DocFields(doc.fields, Len(doc.fields))]

\* Pages numbered as enumerate numbers them, from 0
PageData_ZeroBased(pages, i) == [page_number |-> i - 1, text |-> Strip(pages[i])]

\* lines 148-160
PageData(pages, i) == [page_number |-> i, text |-> Strip(pages[i])]

\* A result that keeps the pages next to the documents
CallAzureApi_Both(resp) ==
    IF resp.documents # <<>>
    THEN [documents |-> [i \in 1..Len(resp.documents) |-> DocData(resp.documents[i])],
          text |-> Strip(Join(resp.pages, <<"\n">>)),
          pages |-> [i \in 1..Len(resp.pages) |-> PageData(resp.pages, i)]]
    ELSE [text |-> Strip(Join(resp.pages, <<"\n">>)),
          pages |-> [i \in 1..Len(resp.pages) |-> PageData(resp.pages, i)]]

\* lines 113-165: a dict with the key documents, or with the keys text and pages
CallAzureApi(resp) ==
    IF resp.documents # <<>>
    THEN [documents |-> [i \in 1..Len(resp.documents) |-> DocData(resp.documents[i])]]
    ELSE [text |-> Strip(Join(resp.pages, <<"\n">>)),
          pages |-> [i \in 1..Len(resp.pages) |-> PageData(resp.pages, i)]]

(***************************************************************************)
(* OCRProcessor.process_single_image and get_model_id.                     *)
(***************************************************************************)
\* Config.model_mapping: the form types that have a model id
model_mapping == [ft \in {<<"6", "-", "5">>} |-> <<"m", "6", "5">>]

\* get_model_id: self.model_mapping.get(form_type)
GetModelId(ft) == IF ft \in DOMAIN model_mapping THEN PyStr(model_mapping[ft]) ELSE PyNone

\* The None that process_single_image returns: a record with no key of a result
NoResult == [none |-> TRUE]

\* A _call_azure_api that opens the file before it looks the model id up
CallAzureApiOutcome_OpenFirst(open_ok, resp, ft) ==
    IF ~open_ok
    THEN [raised |-> "OSError", opened |-> TRUE, requested |-> FALSE, result |-> NoResult]
    ELSE IF ~Truthy(GetModelId(ft))
    THEN [raised |-> "ValueError", opened |-> TRUE, requested |-> FALSE, result |-> NoResult]
    ELSE IF resp.kind = "raise"
    THEN [raised |-> "ApiError", opened |-> TRUE, requested |-> TRUE, result |-> NoResult]
    ELSE [raised |-> "", opened |-> TRUE, requested |-> TRUE, result |-> CallAzureApi(resp)]

\* _call_azure_api, lines 92-165, with what it does on the way: the
\* exception it raises ("" when it returns), whether open(image_path) was
\* called and whether begin_analyze_document was called.  open_ok tells
\* whether open(image_path, "rb") works.
CallAzureApiOutcome(open_ok, resp, ft) ==
    IF ~Truthy(GetModelId(ft))
    THEN [raised |-> "ValueError", opened |-> FALSE, requested |-> FALSE, result |-> NoResult]
    ELSE IF ~open_ok
    THEN [raised |-> "OSError", opened |-> TRUE, requested |-> FALSE, result |-> NoResult]
    ELSE IF resp.kind = "raise"
    THEN [raised |-> "ApiError", opened |-> TRUE, requested |-> TRUE, result |-> NoResult]
    ELSE [raised |-> "", opened |-> TRUE, requested |-> TRUE, result |-> CallAzureApi(resp)]

\* A process_single_image that lets the exception of the API call through
RecognitionOf_Unguarded(image, exists, open_ok, resp, ft) ==
    LET o == CallAzureApiOutcome(open_ok, resp, ft)
    IN  [ image |-> image, form_type |-> ft, exists |-> exists, open_ok |-> open_ok,
          resp |-> resp,
          api_called |-> exists,
          opened |-> exists /\ o.opened,
          requested |-> exists /\ o.requested,
          caught |-> "",
          logged |-> ~exists,
          escaped |-> IF exists THEN o.raised ELSE "",
          ret |-> IF exists THEN o.result ELSE NoResult ]

\* process_single_image, lines 52-64, with what it does on the way: whether
\* _call_azure_api was called, the exception caught, whether logger.error
\* was called, the exception that leaves the function ("": none) and the
\* returned value
RecognitionOf(image, exists, open_ok, resp, ft) ==
    LET o == CallAzureApiOutcome(open_ok, resp, ft)
    IN  [ image |-> image, form_type |-> ft, exists |-> exists, open_ok |-> open_ok,
          resp |-> resp,
          api_called |-> exists,
          opened |-> exists /\ o.opened,
          requested |-> exists /\ o.requested,
          caught |-> IF exists THEN o.raised ELSE "",
          logged |-> ~exists \/ o.raised # "",
          escaped |-> "",
          ret |-> IF exists THEN o.result ELSE NoResult ]

\* Before any call
NoRecognition ==
    [ image |-> <<>>, form_type |-> <<>>, exists |-> FALSE, open_ok |-> FALSE,
      resp |-> [kind |-> "none"],
      api_called |-> FALSE, opened |-> FALSE, requested |-> FALSE, caught |-> "",
      logged |-> FALSE, escaped |-> "", ret |-> NoResult ]

\* lines 52-64 and 92-110: exists is os.path.exists(image_path); resp is
\* what begin_analyze_document gives, an exception when resp.kind = "raise"
ProcessSingleImage(exists, resp, ft) ==
    IF ~exists THEN NoResult
    ELSE IF ~Truthy(GetModelId(ft)) THEN NoResult
    ELSE IF resp.kind = "raise" THEN NoResult
    ELSE CallAzureApi(resp)

(***************************************************************************)
(* OCRProcessor.process_folder: the row of one document (lines 202-262).   *)
(***************************************************************************)
\* os.path.basename(folder_path)
FolderName == <<"i", "m", "g">>

Item(k, v) == [k |-> k, v |-> v]

\* lines 202-207
SeedRow(filename) ==
    << Item("folder_name", PyStr(FolderName)),
       Item("filename", PyStr(filename)),
       Item("model_name", GetModelId(form_type)),
       Item("type", PyStr(form_type)) >>

\* lines 210-211
WithArea(row, fields) ==
    IF HasKey(fields, "receipt_image_area")
    THEN DictSet(row, "receipt_image_area", Lookup(fields, "receipt_image_area"))
    ELSE row

\* lines 214-218
WithPage(row, filename) == DictSet(row, "page_number_on_pdf", PageNumberOnPdf(filename))

\* lines 221-223: the row after the first n fields were copied
RECURSIVE WithFields(_, _, _)
WithFields(row, fields, n) ==
    IF n = 0 THEN row
    ELSE LET r == WithFields(row, fields, n - 1)
         IN  IF fields[n].k # "receipt_image_area"
             THEN DictSet(r, fields[n].k, fields[n].v)
             ELSE r

BaseRow(filename, fields) ==
    WithFields(WithPage(WithArea(SeedRow(filename), fields), filename), fields, Len(fields))

\* A loop body that crops a default box when the area is no box
AreaCoords_FallbackBox(row) ==
    IF /\ extract_receipts
       /\ HasKey(row, "receipt_image_area")
       /\ Truthy(Lookup(row, "receipt_image_area"))
    THEN IF ParseCoordinates(Lookup(row, "receipt_image_area").s) # None
         THEN ParseCoordinates(Lookup(row, "receipt_image_area").s)
         ELSE <<0, 0, 0, 10, 10, 10, 10, 0>>
    ELSE None

\* lines 227-231: the box of the row's area, None when nothing is to be cropped
AreaCoords(row) ==
    IF /\ extract_receipts
       /\ HasKey(row, "receipt_image_area")
       /\ Truthy(Lookup(row, "receipt_image_area"))
    THEN ParseCoordinates(Lookup(row, "receipt_image_area").s)
    ELSE None

\* A variant that analyses whenever an analyzer is configured
WantsAnalysis_AnalyzerOnly == receipt_analyzer

\* line 246
WantsAnalysis == analyze_receipts /\ receipt_analyzer

\* lines 250-253
WithReceiptInfo(row, receipt_info) ==
    LET r1 == DictSet(row, "payee_name", DictGet(receipt_info, "payee_name", PyStr(<<>>)))
        r2 == DictSet(r1, "payee_address", DictGet(receipt_info, "payee_address", PyStr(<<>>)))
        r3 == DictSet(r2, "payment_date_extracted", DictGet(receipt_info, "payment_date", PyStr(<<>>)))
    IN  DictSet(r3, "payment_purpose", DictGet(receipt_info, "payment_purpose", PyStr(<<>>)))

\* The row of a document; receipt_info is what analyze_receipt_image
\* returns.  It returns a record whatever happens (lines 210-224 of
\* receipt_analyzer.py), so the except clause of lines 255-260 is never
\* entered.
DocRow(filename, doc, receipt_info) ==
    LET row == BaseRow(filename, doc.fields)
    IN  IF AreaCoords(row) # None /\ WantsAnalysis
        THEN WithReceiptInfo(row, receipt_info)
        ELSE row

\* img.crop to a rectangle without width or height cannot be saved
Degenerate(rect) == rect[1] >= rect[3] \/ rect[2] >= rect[4]

\* The _crop_and_save_image call made for a document, if any; img_ok tells
\* whether Image.open and cropped.save work for the file
DocCrops(place, filename, doc_idx, doc, img_ok) ==
    LET cs == AreaCoords(BaseRow(filename, doc.fields))
    IN  IF cs # None
        THEN << [ file |-> place, doc |-> doc_idx,
                  name |-> ReceiptFilename(filename, doc_idx),
                  rect |-> CropRect(cs),
                  saved |-> img_ok /\ ~Degenerate(CropRect(cs)) ] >>
        ELSE <<>>

\* The analyze_receipt_image call made for a document, if any, with what it
\* returned
DocAnalyses(place, filename, doc_idx, doc, receipt_info) ==
    IF AreaCoords(BaseRow(filename, doc.fields)) # None /\ WantsAnalysis
    THEN << [ file |-> place, doc |-> doc_idx,
              name |-> ReceiptFilename(filename, doc_idx),
              info |-> receipt_info ] >>
    ELSE <<>>

\* lines 265-270
PageRow(filename, page) ==
    << Item("filename", PyStr(filename)),
       Item("page", PyNum(page.page_number)),
       Item("ocr_result", PyStr(page.text)) >>

\* A loop body that reports a file without a result as a row of its own
RowsOf_ErrorRow(filename, result, receipt_info) ==
    IF "documents" \in DOMAIN result
    THEN [i \in 1..Len(result.documents) |-> DocRow(filename, result.documents[i], receipt_info)]
    ELSE IF "pages" \in DOMAIN result
    THEN [i \in 1..Len(result.pages) |-> PageRow(filename, result.pages[i])]
    ELSE << << Item("filename", PyStr(filename)), Item("error", PyStr(<<"e">>)) >> >>

\* lines 198-270: the rows a result adds, in order
RowsOf(filename, result, receipt_info) ==
    IF "documents" \in DOMAIN result
    THEN [i \in 1..Len(result.documents) |-> DocRow(filename, result.documents[i], receipt_info)]
    ELSE IF "pages" \in DOMAIN result
    THEN [i \in 1..Len(result.pages) |-> PageRow(filename, result.pages[i])]
    ELSE <<>>

\* doc_idx of enumerate, or the place of the page, for each of these rows
SrcOf(place, result) ==
    IF "documents" \in DOMAIN result
    THEN [i \in 1..Len(result.documents) |-> <<place, i - 1>>]
    ELSE IF "pages" \in DOMAIN result
    THEN [i \in 1..Len(result.pages) |-> <<place, i - 1>>]
    ELSE <<>>

CropsOf(place, filename, result, img_ok) ==
    IF "documents" \in DOMAIN result
    THEN Concat([i \in 1..Len(result.documents) |->
                    DocCrops(place, filename, i - 1, result.documents[i], img_ok)])
    ELSE <<>>

AnalysesOf(place, filename, result, receipt_info) ==
    IF "documents" \in DOMAIN result
    THEN Concat([i \in 1..Len(result.documents) |->
                    DocAnalyses(place, filename, i - 1, result.documents[i], receipt_info)])
    ELSE <<>>

(***************************************************************************)
(* The returned table (lines 276-287).                                     *)
(***************************************************************************)
InSeq(x, xs) == \E i \in 1..Len(xs) : xs[i] = x

\* The elements of xs that are not in seen, each once, in the order of xs
RECURSIVE NewOnes(_, _)
NewOnes(xs, seen) ==
    IF xs = <<>> THEN <<>>
    ELSE IF InSeq(Head(xs), seen) THEN NewOnes(Tail(xs), seen)
    ELSE <<Head(xs)>> \o NewOnes(Tail(xs), Append(seen, Head(xs)))

\* pd.DataFrame(results).columns: the keys of the rows in first-seen order
RECURSIVE DfColumns(_, _)
DfColumns(rows, n) ==
    IF n = 0 THEN <<>>
    ELSE LET cols == DfColumns(rows, n - 1)
         IN  cols \o NewOnes(Keys(rows[n]), cols)

priority_cols ==
    << "folder_name", "filename", "model_name", "type", "receipt_image_area",
       "page_number_on_pdf", "page_number", "payee_name", "payee_address",
       "payment_date_extracted", "payment_purpose" >>

Present(c, cols) == InSeq(c, cols)

Absent(c, cols) == ~InSeq(c, cols)

\* An ordering that puts the whole priority list first, present or not
OrderColumns_WholePriority(columns) ==
    LET other_cols == SelectSeq(columns, LAMBDA c : Absent(c, priority_cols))
    IN  priority_cols \o other_cols

\* lines 282-283
OrderColumns(columns) ==
    LET other_cols == SelectSeq(columns, LAMBDA c : Absent(c, priority_cols))
    IN  SelectSeq(priority_cols, LAMBDA c : Present(c, columns)) \o other_cols

\* line 287
EmptyColumns == <<"folder_name", "filename", "page_number">>

NoTable == [columns |-> <<>>, rows |-> <<>>]

\* A table that has no columns when there are no rows
Table_NoSchema(rows) ==
    IF rows # <<>>
    THEN [columns |-> OrderColumns(DfColumns(rows, Len(rows))), rows |-> rows]
    ELSE NoTable

\* lines 277-287
Table(rows) ==
    IF rows # <<>>
    THEN [columns |-> OrderColumns(DfColumns(rows, Len(rows))), rows |-> rows]
    ELSE [columns |-> EmptyColumns, rows |-> <<>>]

(***************************************************************************)
(* The environment of process_folder: the folder, the recognition API and  *)
(* the receipt analyzer.                                                   *)
(***************************************************************************)
Filenames ==
    { <<"a", ".", "p", "n", "g">>,
      <<"a", ".", "J", "P", "G">>,
      <<"p", "a", "g", "e", "_", "2", ".", "p", "d", "f">>,
      <<"c", ".", "t", "x", "t">> }

MaxFiles == 4

\* os.listdir: distinct names in any order
Listings ==
    UNION { {l \in [1..n -> Filenames] : \A i, j \in 1..n : l[i] = l[j] => i = j}
            : n \in 0..MaxFiles }

FormTypes == { <<"6", "-", "5">>, <<"9", "-", "9">> }

ExampleBox == <<10, 10, 10, 50, 50, 50, 50, 10>>

\* A document whose receipt_image field has a polygon of four points
DocOk ==
    [ doc_type |-> "form",
      fields |-> << ApiField("z", <<"v">>, <<>>, <<>>),
                    ApiField("receipt_image", <<>>, <<"r">>,
                             [i \in 1..8 |-> Num(FALSE, ExampleBox[i], -1)]) >> ]

\* A document whose area field holds a string that is no box
DocBad ==
    [ doc_type |-> "form",
      fields |-> << ApiField("receipt_image_area", <<"1", "0", ",", "x">>, <<>>, <<>>),
                    ApiField("type", <<"t">>, <<>>, <<>>),
                    ApiField("z", <<>>, <<"w">>, <<>>) >> ]

\* A document without an area
DocPlain ==
    [ doc_type |-> "form",
      fields |-> << ApiField("payee_name", <<"p">>, <<>>, <<>>),
                    ApiField("y", <<>>, <<>>, <<>>) >> ]

ApiResponses ==
    { [kind |-> "ok", documents |-> <<DocBad, DocPlain, DocOk>>, pages |-> << <<"l", "\n">> >>],
      [kind |-> "ok", documents |-> <<>>, pages |-> << <<"l", "\n", "m", "\n">>, <<>> >>],
      [kind |-> "ok", documents |-> <<>>, pages |-> <<>>],
      [kind |-> "raise", documents |-> <<>>, pages |-> <<>>] }

\* The characters of the error sentinel
ErrChars == <<"E", "R", "R", "O", "R">>

\* What analyze_receipt_image returns: the fields read from a receipt
ReceiptRead ==
    << Item("payee_name", PyStr(<<"n">>)),
       Item("payee_address", PyStr(<<"a">>)),
       Item("payment_date", PyStr(<<"d">>)),
       Item("payee_detail", PyStr(<<"e">>)) >>

\* ... or the record of its except clause (receipt_analyzer.py, lines 212-224)
ReceiptError ==
    [ i \in 1..11 |->
        Item(<< "payee_name", "payee_address", "payment_date", "payment_purpose",
                "validity_score", "validity_reason", "payee_detail",
                "transparency_score", "alternative_suggestion",
                "news_value_potential_score", "news_value_potential_reason" >>[i],
             PyStr(ErrChars)) ]

\* Whether the image can be opened and saved, and what the analyzer returns
ReceiptOutcomes ==
    { [img_ok |-> TRUE, receipt_info |-> ReceiptRead],
      [img_ok |-> TRUE, receipt_info |-> ReceiptError],
      [img_ok |-> FALSE, receipt_info |-> ReceiptError] }

\* What happens to one file: it is gone when it is to be read, or the API
\* answers; only documents lead to crops and analyses
FileEvents ==
    { [exists |-> FALSE, resp |-> r, out |-> o] :
        r \in {x \in ApiResponses : x.kind = "raise"},
        o \in {x \in ReceiptOutcomes : ~x.img_ok} }
    \cup { [exists |-> TRUE, resp |-> r, out |-> o] :
        r \in {x \in ApiResponses : x.documents = <<>>},
        o \in {x \in ReceiptOutcomes : ~x.img_ok} }
    \cup { [exists |-> TRUE, resp |-> r, out |-> o] :
        r \in {x \in ApiResponses : x.documents # <<>>},
        o \in ReceiptOutcomes }

(***************************************************************************)
(* OCRProcessor.process_folder, one entry of the listing at a time.        *)
(***************************************************************************)
\* line 192: an entry without a supported extension is passed over
SkipEntry ==
    /\ folder_pc = "loop"
    /\ file_idx <= Len(listing)
    /\ ~IsSupported(listing[file_idx])
    /\ file_idx' = file_idx + 1
    /\ UNCHANGED <<listing, form_type, extract_receipts, analyze_receipts,
                   receipt_analyzer, results, row_src, recognized, crops,
                   analyses, df, folder_pc>>
    /\ UNCHANGED <<coordVars, cropVars, cacheVars, callVars>>

\* lines 192-274: the loop body for an entry with a supported extension
ProcessFile(exists, resp, out) ==
    /\ folder_pc = "loop"
    /\ file_idx <= Len(listing)
    /\ IsSupported(listing[file_idx])
    /\ LET filename == listing[file_idx]
           result == ProcessSingleImage(exists, resp, form_type)
       IN  /\ recognized' = Append(recognized, [file |-> file_idx, result |-> result])
           /\ results' = results \o RowsOf(filename, result, out.receipt_info)
           /\ row_src' = row_src \o SrcOf(file_idx, result)
           /\ crops' = crops \o CropsOf(file_idx, filename, result, out.img_ok)
           /\ analyses' = analyses \o AnalysesOf(file_idx, filename, result, out.receipt_info)
    /\ file_idx' = file_idx + 1
    /\ UNCHANGED <<listing, form_type, extract_receipts, analyze_receipts,
                   receipt_analyzer, df, folder_pc>>
    /\ UNCHANGED <<coordVars, cropVars, cacheVars, callVars>>

\* lines 276-287: the loop is over, the table is built and returned
ReturnTable ==
    /\ folder_pc = "loop"
    /\ file_idx > Len(listing)
    /\ df' = Table(results)
    /\ folder_pc' = "done"
    /\ UNCHANGED <<listing, form_type, extract_receipts, analyze_receipts,
                   receipt_analyzer, file_idx, results, row_src, recognized,
                   crops, analyses>>
    /\ UNCHANGED <<coordVars, cropVars, cacheVars, callVars>>

(***************************************************************************)
(* OCRProcessor.process_single_image, one call.                            *)
(***************************************************************************)
ProcessSingleImageCall(image, exists, open_ok, resp, ft) ==
    /\ last_recognition' = RecognitionOf(image, exists, open_ok, resp, ft)
    /\ UNCHANGED <<last_analysis, last_stats, retry_run, batch_run, coordVars, cropVars,
                   cacheVars, folderVars>>

(***************************************************************************)
(* retry (src/src/utils.py): one call of the wrapper of a function          *)
(* decorated with retry(max_attempts, delay, backoff).  errors lists the    *)
(* exceptions the function has raised so far; sleeps lists the arguments    *)
(* of time.sleep.                                                           *)
(***************************************************************************)
MaxAttempts == 3

NoRetry ==
    [ pc |-> "idle", max_attempts |-> 0, delay |-> 0, backoff |-> 0,
      attempt |-> 0, current_delay |-> 0, last_exception |-> "",
      invocations |-> 0, errors |-> <<>>, sleeps |-> <<>>,
      value |-> "", raised |-> "" ]

\* A variant that waits after the last failure as well
RetryAttempt_SleepsAfterLast(ok, v, e) ==
    /\ retry_run.pc = "loop"
    /\ retry_run.attempt < retry_run.max_attempts
    /\ retry_run' =
         IF ok
         THEN [retry_run EXCEPT !.pc = "returned", !.value = v,
                                !.invocations = @ + 1]
         ELSE [retry_run EXCEPT
                 !.pc = IF retry_run.attempt < retry_run.max_attempts - 1
                        THEN "loop" ELSE "raised",
                 !.raised = IF retry_run.attempt < retry_run.max_attempts - 1
                            THEN "" ELSE e,
                 !.invocations = @ + 1,
                 !.errors = Append(@, e),
                 !.last_exception = e,
                 !.sleeps = Append(@, retry_run.current_delay),
                 !.current_delay = @ * retry_run.backoff,
                 !.attempt = @ + 1]
    /\ UNCHANGED <<last_recognition, last_analysis, last_stats, batch_run,
                   coordVars, cropVars, cacheVars, folderVars>>

\* lines 26-41: one pass of the loop; the function returns v (ok) or raises
\* e.  After the failure of the last pass the loop is over and line 41
\* raises last_exception.
RetryAttempt(ok, v, e) ==
    /\ retry_run.pc = "loop"
    /\ retry_run.attempt < retry_run.max_attempts
    /\ retry_run' =
         IF ok
         THEN [retry_run EXCEPT !.pc = "returned", !.value = v,
                                !.invocations = @ + 1]
         ELSE IF retry_run.attempt < retry_run.max_attempts - 1
         THEN [retry_run EXCEPT
                 !.invocations = @ + 1,
                 !.errors = Append(@, e),
                 !.last_exception = e,
                 !.sleeps = Append(@, retry_run.current_delay),
                 !.current_delay = @ * retry_run.backoff,
                 !.attempt = @ + 1]
         ELSE [retry_run EXCEPT
                 !.pc = "raised",
                 !.raised = e,
                 !.invocations = @ + 1,
                 !.errors = Append(@, e),
                 !.last_exception = e,
                 !.attempt = @ + 1]
    /\ UNCHANGED <<last_recognition, last_analysis, last_stats, batch_run,
                   coordVars, cropVars, cacheVars, folderVars>>

(***************************************************************************)
(* PayeeEnrichmentService.batch_enrich_payees, one payee at a time.  A     *)
(* payee is a dict; i is the start of the current batch and j the place    *)
(* in it; sleeps counts the calls of time.sleep(0.5), calls lists the      *)
(* enrich_payee_info calls.                                                *)
(***************************************************************************)
MaxPayees == 3

MaxBatchSize == 3

NoBatch ==
    [ pc |-> "idle", payees |-> <<>>, batch_size |-> 1, i |-> 0, j |-> 0,
      enriched_results |-> <<>>, calls |-> <<>>, sleeps |-> 0 ]

\* A variant whose batch misses its last payee
BatchSlice_DropsLast(payees, i, batch_size) ==
    SubSeq(payees, i + 1, IF i + batch_size - 1 < Len(payees)
                          THEN i + batch_size - 1 ELSE Len(payees))

\* payees[i:i + batch_size]
BatchSlice(payees, i, batch_size) ==
    SubSeq(payees, i + 1, IF i + batch_size < Len(payees)
                          THEN i + batch_size ELSE Len(payees))

\* lines 132-147: the body of the inner loop for the next payee of the
\* batch, and the step to the next batch when the batch is through
BatchEnrichOne(resp) ==
    /\ batch_run.pc = "loop"
    /\ batch_run.i < Len(batch_run.payees)
    /\ LET batch == BatchSlice(batch_run.payees, batch_run.i, batch_run.batch_size)
       IN  /\ batch_run.j < Len(batch)
           /\ LET payee == batch[batch_run.j + 1]
              IN  /\ EnrichPayeeInfo(Get(payee, "name", ""), Get(payee, "address", ""),
                                     TRUE, resp, 0)
                  /\ batch_run' =
                       [batch_run EXCEPT
                          !.enriched_results =
                              Append(@, [k \in DOMAIN payee \cup DOMAIN last_call'.ret |->
                                           IF k \in DOMAIN last_call'.ret
                                           THEN last_call'.ret[k] ELSE payee[k]]),
                          !.calls = Append(@, last_call'),
                          !.sleeps = @ + 1,
                          !.j = IF batch_run.j + 1 < Len(batch) THEN batch_run.j + 1 ELSE 0,
                          !.i = IF batch_run.j + 1 < Len(batch)
                                THEN batch_run.i ELSE batch_run.i + batch_run.batch_size]
    /\ UNCHANGED <<last_recognition, last_analysis, last_stats, retry_run>>

\* line 149: the outer loop is over
BatchReturn ==
    /\ batch_run.pc = "loop"
    /\ batch_run.i >= Len(batch_run.payees)
    /\ batch_run' = [batch_run EXCEPT !.pc = "done"]
    /\ UNCHANGED <<last_recognition, last_analysis, last_stats, retry_run,
                   coordVars, cropVars, cacheVars, folderVars>>

(***************************************************************************)
(* Specifications.                                                         *)
(***************************************************************************)
NextCoords == (\E t \in PlainItems \cup OddItems : AppendItem(t)) \/ ParseCall

\* An empty area string in one of the three styles; the rest is not in use
InitCoords ==
    /\ tokens = <<>>
    /\ style \in Styles
    /\ coord_string = <<>>
    /\ coords = None
    /\ parse_pc = "build"
    /\ box = <<>>
    /\ crop_rect = <<>>
    /\ crop_pc = "idle"
    /\ cache = EmptyMap
    /\ cache_expiry = EmptyMap
    /\ now = 0
    /\ last_call = NoCall
    /\ last_recognition = NoRecognition
    /\ last_analysis = NoAnalysis
    /\ last_stats = NoStats
    /\ retry_run = NoRetry
    /\ batch_run = NoBatch
    /\ listing = <<>>
    /\ form_type = <<>>
    /\ extract_receipts = FALSE
    /\ analyze_receipts = FALSE
    /\ receipt_analyzer = FALSE
    /\ file_idx = 1
    /\ results = <<>>
    /\ row_src = <<>>
    /\ recognized = <<>>
    /\ crops = <<>>
    /\ analyses = <<>>
    /\ df = NoTable
    /\ folder_pc = "idle"

SpecCoords == InitCoords /\ [][NextCoords]_vars

NextCrop == CropAndSave \/ CropFails

\* Any box of 8 pixel values; the rest is not in use
InitCrop ==
    /\ box \in [1..8 -> PixelValues]
    /\ crop_rect = <<>>
    /\ crop_pc = "ready"
    /\ tokens = <<>>
    /\ style = "flat"
    /\ coord_string = <<>>
    /\ coords = None
    /\ parse_pc = "idle"
    /\ cache = EmptyMap
    /\ cache_expiry = EmptyMap
    /\ now = 0
    /\ last_call = NoCall
    /\ last_recognition = NoRecognition
    /\ last_analysis = NoAnalysis
    /\ last_stats = NoStats
    /\ retry_run = NoRetry
    /\ batch_run = NoBatch
    /\ listing = <<>>
    /\ form_type = <<>>
    /\ extract_receipts = FALSE
    /\ analyze_receipts = FALSE
    /\ receipt_analyzer = FALSE
    /\ file_idx = 1
    /\ results = <<>>
    /\ row_src = <<>>
    /\ recognized = <<>>
    /\ crops = <<>>
    /\ analyses = <<>>
    /\ df = NoTable
    /\ folder_pc = "idle"

SpecCrop == InitCrop /\ [][NextCrop]_vars

\* A direct call of the service leaves the records of the other calls alone
NextCache ==
    \/ \E n \in PayeeNames, a \in PayeeAddresses, u \in BOOLEAN,
          r \in Responses, d \in {0, TickHours} :
            EnrichPayeeInfo(n, a, u, r, d) /\ UNCHANGED callVars
    \/ Tick

\* A new service at hour 0; the rest is not in use
InitCache ==
    /\ cache = EmptyMap
    /\ cache_expiry = EmptyMap
    /\ now = 0
    /\ last_call = NoCall
    /\ last_recognition = NoRecognition
    /\ last_analysis = NoAnalysis
    /\ last_stats = NoStats
    /\ retry_run = NoRetry
    /\ batch_run = NoBatch
    /\ tokens = <<>>
    /\ style = "flat"
    /\ coord_string = <<>>
    /\ coords = None
    /\ parse_pc = "idle"
    /\ box = <<>>
    /\ crop_rect = <<>>
    /\ crop_pc = "idle"
    /\ listing = <<>>
    /\ form_type = <<>>
    /\ extract_receipts = FALSE
    /\ analyze_receipts = FALSE
    /\ receipt_analyzer = FALSE
    /\ file_idx = 1
    /\ results = <<>>
    /\ row_src = <<>>
    /\ recognized = <<>>
    /\ crops = <<>>
    /\ analyses = <<>>
    /\ df = NoTable
    /\ folder_pc = "idle"

SpecCache == InitCache /\ [][NextCache]_vars

\* For the statistics one answer and one failure of the external model are
\* enough: a report reads the keys and the expiries, never the records
StatsResponses == {r \in Responses : r.kind = "raise" \/ "website" \in DOMAIN r.obj}

\* The service with its statistics: calls, clock advances and reports, in
\* any order, on a new service;
\* a request is answered within the hour
NextStats ==
    \/ \E n \in PayeeNames, a \in PayeeAddresses, u \in BOOLEAN, r \in StatsResponses :
            EnrichPayeeInfo(n, a, u, r, 0) /\ UNCHANGED callVars
    \/ Tick
    \/ ExportCacheStatsCall

SpecStats == InitCache /\ [][NextStats]_vars

NextFolder ==
    \/ SkipEntry
    \/ \E e \in FileEvents : ProcessFile(e.exists, e.resp, e.out)
    \/ ReturnTable

\* A call of process_folder on any listing; the rest is not in use
InitFolder ==
    /\ listing \in Listings
    /\ form_type \in FormTypes
    /\ extract_receipts \in BOOLEAN
    /\ analyze_receipts \in BOOLEAN
    /\ receipt_analyzer \in BOOLEAN
    /\ file_idx = 1
    /\ results = <<>>
    /\ row_src = <<>>
    /\ recognized = <<>>
    /\ crops = <<>>
    /\ analyses = <<>>
    /\ df = NoTable
    /\ folder_pc = "loop"
    /\ tokens = <<>>
    /\ style = "flat"
    /\ coord_string = <<>>
    /\ coords = None
    /\ parse_pc = "idle"
    /\ box = <<>>
    /\ crop_rect = <<>>
    /\ crop_pc = "idle"
    /\ cache = EmptyMap
    /\ cache_expiry = EmptyMap
    /\ now = 0
    /\ last_call = NoCall
    /\ last_recognition = NoRecognition
    /\ last_analysis = NoAnalysis
    /\ last_stats = NoStats
    /\ retry_run = NoRetry
    /\ batch_run = NoBatch

SpecFolder == InitFolder /\ [][NextFolder]_vars

NextRecognize ==
    \E image \in Filenames, exists \in BOOLEAN, open_ok \in BOOLEAN,
       resp \in ApiResponses, ft \in FormTypes :
        ProcessSingleImageCall(image, exists, open_ok, resp, ft)

\* A processor before its first process_single_image; the rest is not in use
InitRecognize ==
    /\ last_recognition = NoRecognition
    /\ last_analysis = NoAnalysis
    /\ last_stats = NoStats
    /\ retry_run = NoRetry
    /\ batch_run = NoBatch
    /\ cache = EmptyMap
    /\ cache_expiry = EmptyMap
    /\ now = 0
    /\ last_call = NoCall
    /\ tokens = <<>>
    /\ style = "flat"
    /\ coord_string = <<>>
    /\ coords = None
    /\ parse_pc = "idle"
    /\ box = <<>>
    /\ crop_rect = <<>>
    /\ crop_pc = "idle"
    /\ listing = <<>>
    /\ form_type = <<>>
    /\ extract_receipts = FALSE
    /\ analyze_receipts = FALSE
    /\ receipt_analyzer = FALSE
    /\ file_idx = 1
    /\ results = <<>>
    /\ row_src = <<>>
    /\ recognized = <<>>
    /\ crops = <<>>
    /\ analyses = <<>>
    /\ df = NoTable
    /\ folder_pc = "idle"

SpecRecognize == InitRecognize /\ [][NextRecognize]_vars

NextAnalyze ==
    \/ \E e \in AnalyzerEvents : AnalyzeReceiptImage(e.encode_ok, e.vresp, e.eresp)
    \/ Tick

\* A new analyzer, with a new enrichment service, at hour 0; the rest is
\* not in use
InitAnalyze ==
    /\ last_analysis = NoAnalysis
    /\ last_recognition = NoRecognition
    /\ last_stats = NoStats
    /\ retry_run = NoRetry
    /\ batch_run = NoBatch
    /\ cache = EmptyMap
    /\ cache_expiry = EmptyMap
    /\ now = 0
    /\ last_call = NoCall
    /\ tokens = <<>>
    /\ style = "flat"
    /\ coord_string = <<>>
    /\ coords = None
    /\ parse_pc = "idle"
    /\ box = <<>>
    /\ crop_rect = <<>>
    /\ crop_pc = "idle"
    /\ listing = <<>>
    /\ form_type = <<>>
    /\ extract_receipts = FALSE
    /\ analyze_receipts = FALSE
    /\ receipt_analyzer = FALSE
    /\ file_idx = 1
    /\ results = <<>>
    /\ row_src = <<>>
    /\ recognized = <<>>
    /\ crops = <<>>
    /\ analyses = <<>>
    /\ df = NoTable
    /\ folder_pc = "idle"

SpecAnalyze == InitAnalyze /\ [][NextAnalyze]_vars

\* One call of a wrapped function: each invocation returns or raises
NextRetry == \E ok \in BOOLEAN, v \in {"v"}, e \in {"e1", "e2"} : RetryAttempt(ok, v, e)

\* lines 23-24: the wrapper is entered; max_attempts, delay and backoff are
\* those of the decorator.  The rest is not in use
InitRetry ==
    /\ cache = EmptyMap
    /\ cache_expiry = EmptyMap
    /\ now = 0
    /\ last_call = NoCall
    /\ last_recognition = NoRecognition
    /\ last_analysis = NoAnalysis
    /\ last_stats = NoStats
    /\ retry_run \in
          { [NoRetry EXCEPT !.pc = "loop", !.max_attempts = n, !.delay = d,
                            !.backoff = b, !.current_delay = d] :
              n \in 1..MaxAttempts, d \in {1, 3}, b \in {1, 2, 3} }
    /\ batch_run = NoBatch
    /\ tokens = <<>>
    /\ style = "flat"
    /\ coord_string = <<>>
    /\ coords = None
    /\ parse_pc = "idle"
    /\ box = <<>>
    /\ crop_rect = <<>>
    /\ crop_pc = "idle"
    /\ listing = <<>>
    /\ form_type = <<>>
    /\ extract_receipts = FALSE
    /\ analyze_receipts = FALSE
    /\ receipt_analyzer = FALSE
    /\ file_idx = 1
    /\ results = <<>>
    /\ row_src = <<>>
    /\ recognized = <<>>
    /\ crops = <<>>
    /\ analyses = <<>>
    /\ df = NoTable
    /\ folder_pc = "idle"

SpecRetry == InitRetry /\ [][NextRetry]_vars

\* The payees of a batch: with and without a name, with a key of their own
\* that the enrichment record has too
PayeeDicts ==
    { [name |-> "a", address |-> "c"],
      [name |-> "a", address |-> "c", notes |-> "mine", id |-> "7"],
      [address |-> "b_c"] }

NextBatch ==
    \/ \E r \in StatsResponses : BatchEnrichOne(r)
    \/ BatchReturn

\* line 130: batch_enrich_payees is entered on a new service; the rest is
\* not in use
InitBatch ==
    /\ cache = EmptyMap
    /\ cache_expiry = EmptyMap
    /\ now = 0
    /\ last_call = NoCall
    /\ last_recognition = NoRecognition
    /\ last_analysis = NoAnalysis
    /\ last_stats = NoStats
    /\ retry_run = NoRetry
    /\ batch_run \in
          { [NoBatch EXCEPT !.pc = "loop", !.payees = l, !.batch_size = b] :
              l \in UNION { [1..n -> PayeeDicts] : n \in 0..MaxPayees },
              b \in 1..MaxBatchSize }
    /\ tokens = <<>>
    /\ style = "flat"
    /\ coord_string = <<>>
    /\ coords = None
    /\ parse_pc = "idle"
    /\ box = <<>>
    /\ crop_rect = <<>>
    /\ crop_pc = "idle"
    /\ listing = <<>>
    /\ form_type = <<>>
    /\ extract_receipts = FALSE
    /\ analyze_receipts = FALSE
    /\ receipt_analyzer = FALSE
    /\ file_idx = 1
    /\ results = <<>>
    /\ row_src = <<>>
    /\ recognized = <<>>
    /\ crops = <<>>
    /\ analyses = <<>>
    /\ df = NoTable
    /\ folder_pc = "idle"

SpecBatch == InitBatch /\ [][NextBatch]_vars

(***************************************************************************)
(* Claims about _parse_coordinates (SpecCoords).                           *)
(***************************************************************************)
EightItems == parse_pc = "parsed" /\ Len(tokens) = 8

\* C7, as stated: for every 8 numeric values the flat and the point
\* encoding of the values parse to the same list of 8 integers.
C7_AnyNumbersSameBox ==
    (EightItems /\ \A i \in 1..8 : IsNum(tokens[i])) =>
        /\ coords # None
        /\ coords = ParseCoordinates(FlatEncode(tokens))
        /\ coords = ParseCoordinates(PointEncode(tokens, FALSE))

\* C7, amended: for every 8 non-negative integer values, the flat encoding
\* and the point encoding (the numbers written as ints or as floats with a
\* zero fraction) parse to the same list, the list of the 8 values.
C7_NatIntsSameBox ==
    (EightItems /\ \A i \in 1..8 : IsNatInt(tokens[i])) =>
        /\ coords = [i \in 1..8 |-> tokens[i].whole]
        /\ ParseCoordinates(FlatEncode(tokens)) = ParseCoordinates(PointEncode(tokens, FALSE))
        /\ ParseCoordinates(FlatEncode(tokens)) = ParseCoordinates(PointEncode(tokens, TRUE))

\* A point-form string of float-printed values was parsed to the example box
C7_Witness ==
    /\ EightItems
    /\ style = "pointf"
    /\ \A i \in 1..8 : IsNatInt(tokens[i])
    /\ coords = <<10, 10, 10, 50, 50, 50, 50, 10>>

\* C8, as stated: the result is None or a list of 8 integers, and a string
\* with other than 8 items or with an item that is no number gives None.
C8_ItemCountOrJunkGivesNone ==
    parse_pc = "parsed" =>
        /\ coords = None \/ Len(coords) = 8
        /\ (Len(tokens) # 8 \/ \E i \in 1..Len(tokens) : ~IsNum(tokens[i]))
               => coords = None

IsIntItem(t) == t.k = "num" /\ t.frac = -1

\* The items of a point-form string that the pattern [xy]=<number> matches
Matched(ts) == {i \in 1..Len(ts) : ts[i].k = "num" /\ ~ts[i].neg}

\* C8, amended: the result is None or a list of exactly 8 integers; a flat
\* string with other than 8 comma-separated tokens, or with a token that is
\* no integer literal, gives None; a point-form string gives None unless
\* exactly 8 of its x=/y= items are matched (whatever the pattern does not
\* match is skipped, not counted).
C8_TotalAllOrNothing ==
    parse_pc = "parsed" =>
        /\ coords = None \/ (Len(coords) = 8 /\ \A i \in 1..8 : coords[i] \in Int)
        /\ (style = "flat" /\ (Len(tokens) # 8 \/ \E i \in 1..Len(tokens) : ~IsIntItem(tokens[i])))
               => coords = None
        /\ (style # "flat" /\ Cardinality(Matched(tokens)) # 8) => coords = None

\* A flat string of 8 tokens, one of them no number, was parsed to None
C8_Witness ==
    /\ EightItems
    /\ style = "flat"
    /\ \E i \in 1..8 : tokens[i].k = "junk"
    /\ coords = None

(***************************************************************************)
(* Claims about _crop_and_save_image (SpecCrop).                           *)
(***************************************************************************)
XIdx == {1, 3, 5, 7}

YIdx == {2, 4, 6, 8}

IsMinOf(m, cs, idx) == (\E i \in idx : cs[i] = m) /\ (\A i \in idx : m <= cs[i])

IsMaxOf(m, cs, idx) == (\E i \in idx : cs[i] = m) /\ (\A i \in idx : m >= cs[i])

PointOrders == {p \in [1..4 -> 1..4] : \A i, j \in 1..4 : p[i] = p[j] => i = j}

\* The box with its four points listed in the order p
Reorder(cs, p) ==
    [i \in 1..8 |-> IF i % 2 = 1 THEN cs[2 * p[(i + 1) \div 2] - 1]
                                 ELSE cs[2 * p[i \div 2]]]

\* C10: the crop rectangle is (min x, min y, max x, max y) of the four
\* points, whatever the order they are listed in; the example box
\* [10,10,10,50,50,50,50,10] gives (10,10,50,50).
C10_CropIsBoundingRect ==
    crop_pc = "cropped" =>
        /\ Len(crop_rect) = 4
        /\ IsMinOf(crop_rect[1], box, XIdx)
        /\ IsMinOf(crop_rect[2], box, YIdx)
        /\ IsMaxOf(crop_rect[3], box, XIdx)
        /\ IsMaxOf(crop_rect[4], box, YIdx)
        /\ \A p \in PointOrders : CropRect(Reorder(box, p)) = crop_rect
        /\ box = <<10, 10, 10, 50, 50, 50, 50, 10>> => crop_rect = <<10, 10, 50, 50>>

\* The example box was cropped
C10_Witness ==
    /\ crop_pc = "cropped"
    /\ box = <<10, 10, 10, 50, 50, 50, 50, 10>>
    /\ crop_rect = <<10, 10, 50, 50>>

(***************************************************************************)
(* Claims about PayeeEnrichmentService (SpecCache).  In a step that        *)
(* changes last_call, last_call is the call made before and last_call' the *)
(* call made next; only the clock may have moved between the two.          *)
(***************************************************************************)
NextCallMade == last_call' # last_call

SamePayee(c1, c2) == c1.name = c2.name /\ c1.address = c2.address

Failed(c) == c.requested /\ ~c.stored

\* C2: of two calls for the same (name, address) with use_cache=true, the
\* first of which stored its record, the second is answered with that
\* record and without a request when it is made less than 24 hours after
\* the first (one request in all); it makes a second request when it is
\* made once the expiry, 24 hours after the record's date, has passed.
C2_SecondCallWithin24h ==
    [][ ( /\ NextCallMade
          /\ last_call.use_cache /\ last_call.requested /\ last_call.stored
          /\ last_call'.use_cache
          /\ SamePayee(last_call, last_call') )
        => /\ last_call'.at < last_call.at + CacheHours
                => (~last_call'.requested /\ last_call'.ret = last_call.ret)
           /\ last_call'.at >= last_call.ret.enrichment_date + CacheHours
                => last_call'.requested
      ]_vars

\* A caching call made some hours after the record's date was answered from the cache
C2_Witness ==
    /\ last_call.use_cache
    /\ ~last_call.requested
    /\ last_call.at > last_call.ret.enrichment_date
    /\ last_call.ret = cache[CacheKey(last_call.name, last_call.address)]

\* A failed call changes neither map
FailedCallKeepsMaps ==
    (NextCallMade /\ Failed(last_call')) => (cache' = cache /\ cache_expiry' = cache_expiry)

\* C3, as stated: a failed call leaves the cache map and the expiry map as
\* they were, so the next call for the same (name, address) makes a request.
C3_FailedCallNextAlwaysRequests ==
    [][ /\ FailedCallKeepsMaps
        /\ (NextCallMade /\ Failed(last_call) /\ SamePayee(last_call, last_call'))
              => last_call'.requested
      ]_vars

\* C3, amended: a failed call leaves the cache map and the expiry map as
\* they were, so the next call for the same (name, address) makes a request
\* when the failed call had use_cache=true; after a failed call with
\* use_cache=false the next call is answered from the entry of the key when
\* that entry is not expired.
C3_FailedCallNotCached ==
    [][ /\ FailedCallKeepsMaps
        /\ (NextCallMade /\ Failed(last_call) /\ SamePayee(last_call, last_call'))
              => /\ last_call.use_cache => last_call'.requested
                 /\ ~last_call'.requested
                       => /\ ~last_call.use_cache
                          /\ last_call'.ret = cache[CacheKey(last_call.name, last_call.address)]
                          /\ now < cache_expiry[CacheKey(last_call.name, last_call.address)]
      ]_vars

\* A request failed for a key whose entry had expired, and the entry is still there
C3_Witness ==
    /\ Failed(last_call)
    /\ last_call.use_cache
    /\ CacheKey(last_call.name, last_call.address) \in DOMAIN cache
    /\ cache_expiry[CacheKey(last_call.name, last_call.address)] <= last_call.at

(***************************************************************************)
(* Claims about process_folder (SpecFolder).                               *)
(***************************************************************************)
Returned == folder_pc = "done"

\* The result of the k-th recognition call is None
Unrecognized(k) == recognized[k].result = NoResult

\* The documents of a result or, without documents, its pages
DocsOrPages(result) ==
    IF "documents" \in DOMAIN result THEN Len(result.documents)
    ELSE IF "pages" \in DOMAIN result THEN Len(result.pages)
    ELSE 0

\* The file name of every expected row: one row for each document or page
\* of each recognized file, in the order of the recognition calls
ExpectedNames ==
    Concat([k \in 1..Len(recognized) |->
              [j \in 1..DocsOrPages(recognized[k].result) |-> listing[recognized[k].file]]])

ExactlyOneFailed == Cardinality({k \in 1..Len(recognized) : Unrecognized(k)}) = 1

EntriesOf(file) == {k \in 1..Len(recognized) : recognized[k].file = file}

\* C1: when process_folder has returned and recognition failed for exactly
\* one of the supported files, the table holds one row for each document or
\* page of the other files, in listing order, no row names the failed file,
\* and every supported file of the listing, the ones after the failed file
\* included, went through recognition once.
C1_OneFailureLosesOnlyItsRows ==
    (Returned /\ ExactlyOneFailed) =>
        /\ df.rows = results
        /\ [p \in 1..Len(df.rows) |-> Lookup(df.rows[p], "filename").s] = ExpectedNames
        /\ \A k \in 1..Len(recognized) :
              Unrecognized(k) =>
                 \A p \in 1..Len(df.rows) :
                    Lookup(df.rows[p], "filename") # PyStr(listing[recognized[k].file])
        /\ \A k \in 1..(Len(recognized) - 1) : recognized[k].file < recognized[k + 1].file
        /\ \A i \in 1..Len(listing) :
              IsSupported(listing[i]) => Cardinality(EntriesOf(i)) = 1

\* Three files went through recognition, the one in the middle failed, and
\* both of the others have rows in the returned table
C1_Witness ==
    /\ Returned
    /\ ExactlyOneFailed
    /\ Len(recognized) = 3
    /\ Unrecognized(2)
    /\ DocsOrPages(recognized[1].result) > 0
    /\ DocsOrPages(recognized[3].result) > 0
    /\ Len(df.rows) = DocsOrPages(recognized[1].result) + DocsOrPages(recognized[3].result)

ListedExtensions ==
    { <<".", "p", "n", "g">>, <<".", "j", "p", "g">>,
      <<".", "j", "p", "e", "g">>, <<".", "p", "d", "f">> }

\* The name ends in one of the listed extensions, letter case set aside
HasListedExtension(name) ==
    \E e \in ListedExtensions :
        /\ Len(e) <= Len(name)
        /\ Lower(SubSeq(name, Len(name) - Len(e) + 1, Len(name))) = e

\* C4: of the entries of the listing gone through so far, recognition was
\* called exactly once for each one whose name ends in .png, .jpg, .jpeg or
\* .pdf in any letter case, in listing order, and for no other entry; the
\* filter takes d.jpeg and D.JpEg and refuses d.jpeg.bak, jpeg and d.gif.
C4_RecognitionOncePerSupportedEntry ==
    /\ file_idx \in 1..(Len(listing) + 1)
    /\ \A i \in 1..(file_idx - 1) :
          Cardinality(EntriesOf(i)) = IF HasListedExtension(listing[i]) THEN 1 ELSE 0
    /\ \A k \in 1..Len(recognized) : recognized[k].file \in 1..(file_idx - 1)
    /\ \A k \in 1..(Len(recognized) - 1) : recognized[k].file < recognized[k + 1].file
    /\ IsSupported(<<"d", ".", "j", "p", "e", "g">>)
    /\ IsSupported(<<"D", ".", "J", "p", "E", "g">>)
    /\ ~IsSupported(<<"d", ".", "j", "p", "e", "g", ".", "b", "a", "k">>)
    /\ ~IsSupported(<<"j", "p", "e", "g">>)
    /\ ~IsSupported(<<"d", ".", "g", "i", "f">>)

\* A listing of three supported entries, one of them in upper case, and one
\* unsupported entry gave three recognition calls
C4_Witness ==
    /\ Returned
    /\ Len(listing) = 4
    /\ Len(recognized) = 3
    /\ \E k \in 1..3 : listing[recognized[k].file] = <<"a", ".", "J", "P", "G">>
    /\ \E i \in 1..4 : ~HasListedExtension(listing[i])

AllKeys == UNION { {df.rows[p][j].k : j \in 1..Len(df.rows[p])} : p \in 1..Len(df.rows) }

PriorityPlace(c) == CHOOSE i \in 1..Len(priority_cols) : priority_cols[i] = c

IsPriority(c) == \E i \in 1..Len(priority_cols) : priority_cols[i] = c

\* The first place a key has in the rows: its row and its place in that row
FirstRow(c) ==
    CHOOSE p \in 1..Len(df.rows) :
        /\ HasKey(df.rows[p], c)
        /\ \A q \in 1..(p - 1) : ~HasKey(df.rows[q], c)

PlaceInRow(c, p) == CHOOSE j \in 1..Len(df.rows[p]) : df.rows[p][j].k = c

SeenBefore(c1, c2) ==
    \/ FirstRow(c1) < FirstRow(c2)
    \/ /\ FirstRow(c1) = FirstRow(c2)
       /\ PlaceInRow(c1, FirstRow(c1)) < PlaceInRow(c2, FirstRow(c2))

ExampleRow ==
    << Item("type", PyStr(<<"t">>)), Item("z", PyStr(<<"v">>)),
       Item("folder_name", PyStr(FolderName)), Item("filename", PyStr(<<"f">>)) >>

\* C5: when process_folder has returned a table of at least one row, its
\* columns are the keys of all rows, each once; the columns of the priority
\* list come first in the order of that list, and the other columns follow
\* in the order in which the rows first show them; a row with the keys
\* type, z, folder_name, filename gives folder_name, filename, type, z.
C5_ColumnsPriorityThenFirstSeen ==
    /\ (Returned /\ results # <<>>) =>
          LET cols == df.columns
          IN  /\ {cols[i] : i \in 1..Len(cols)} = AllKeys
              /\ \A i, j \in 1..Len(cols) : cols[i] = cols[j] => i = j
              /\ \A i, j \in 1..Len(cols) :
                    i < j =>
                       IF IsPriority(cols[j])
                       THEN /\ IsPriority(cols[i])
                            /\ PriorityPlace(cols[i]) < PriorityPlace(cols[j])
                       ELSE IsPriority(cols[i]) \/ SeenBefore(cols[i], cols[j])
    /\ Table(<<ExampleRow>>).columns = <<"folder_name", "filename", "type", "z">>

\* The returned table has rows of documents and rows of pages, with columns
\* of the priority list that are not there, and others that are
C5_Witness ==
    /\ Returned
    /\ \E p, q \in 1..Len(df.rows) :
          /\ HasKey(df.rows[p], "ocr_result")
          /\ HasKey(df.rows[q], "payment_purpose")
          /\ q < p
    /\ \E i \in 1..Len(df.columns) : df.columns[i] = "z"
    /\ \A i \in 1..Len(df.columns) : df.columns[i] # "page_number"

\* C6: when process_folder has returned without having collected a row, the
\* table is empty and its columns are folder_name, filename, page_number.
C6_NoRowsGivesMinimalSchema ==
    (Returned /\ results = <<>>) =>
        /\ df.rows = <<>>
        /\ df.columns = <<"folder_name", "filename", "page_number">>

\* Two supported files gave no row: one failed and one has no page
C6_Witness ==
    /\ Returned
    /\ results = <<>>
    /\ df.rows = <<>>
    /\ \E k1, k2 \in 1..Len(recognized) :
          /\ Unrecognized(k1)
          /\ ~Unrecognized(k2)
          /\ DocsOrPages(recognized[k2].result) = 0

\* The document has an area that is a non-empty string without a box in it
AreaUnparsed(fields) ==
    /\ HasKey(fields, "receipt_image_area")
    /\ Truthy(Lookup(fields, "receipt_image_area"))
    /\ ParseCoordinates(Lookup(fields, "receipt_image_area").s) = None

RowsFrom(file, doc_idx) == {p \in 1..Len(row_src) : row_src[p] = <<file, doc_idx>>}

SeedColumns == {"folder_name", "filename", "model_name", "type"}

SeedValue(c, filename) ==
    IF c = "folder_name" THEN PyStr(FolderName)
    ELSE IF c = "filename" THEN PyStr(filename)
    ELSE IF c = "model_name" THEN GetModelId(form_type)
    ELSE PyStr(form_type)

AnalysisColumns == {"payee_name", "payee_address", "payment_date_extracted", "payment_purpose"}

\* The row of a document whose area was not parsed
KeptRow(row, fields, filename) ==
    /\ \A c \in SeedColumns :
          /\ HasKey(row, c)
          /\ ~HasKey(fields, c) => Lookup(row, c) = SeedValue(c, filename)
    /\ \A j \in 1..Len(fields) : Lookup(row, fields[j].k) = fields[j].v
    /\ \A c \in AnalysisColumns : HasKey(row, c) => HasKey(fields, c)

\* C9: when process_folder has returned, for every recognized document
\* whose receipt_image_area is a string that cannot be parsed: no crop and
\* no receipt analysis was made for it, the table has its one row with the
\* seed columns (with the seed's value where no field of the document has
\* that name), the area string and every field of the document as the API
\* gave them and no column of an analysis, and the documents after it in
\* the file have their rows too.
C9_UnparsedAreaKeepsRow ==
    Returned =>
    /\ Len(row_src) = Len(df.rows)
    /\ \A k \in 1..Len(recognized) :
          "documents" \in DOMAIN recognized[k].result =>
             \A i \in 1..Len(recognized[k].result.documents) :
                AreaUnparsed(recognized[k].result.documents[i].fields) =>
                   LET file == recognized[k].file
                       fields == recognized[k].result.documents[i].fields
                   IN  /\ \A c \in 1..Len(crops) :
                             ~(crops[c].file = file /\ crops[c].doc = i - 1)
                       /\ \A a \in 1..Len(analyses) :
                             ~(analyses[a].file = file /\ analyses[a].doc = i - 1)
                       /\ Cardinality(RowsFrom(file, i - 1)) = 1
                       /\ \A p \in RowsFrom(file, i - 1) :
                             KeptRow(df.rows[p], fields, listing[file])
                       /\ \A j \in i..Len(recognized[k].result.documents) :
                             Cardinality(RowsFrom(file, j - 1)) = 1

\* With extraction and analysis asked for, a file had a document with an
\* unparsed area followed by a document that was cropped and analysed, and
\* a later file was recognized
C9_Witness ==
    /\ Returned
    /\ extract_receipts
    /\ WantsAnalysis
    /\ \E k \in 1..(Len(recognized) - 1) :
          /\ "documents" \in DOMAIN recognized[k].result
          /\ AreaUnparsed(recognized[k].result.documents[1].fields)
          /\ \E a \in 1..Len(analyses) : analyses[a].file = recognized[k].file
          /\ ~Unrecognized(k + 1)

\* The rows the table has for the file at a place of the listing
RowsOfFile(file) == {p \in 1..Len(df.rows) : row_src[p][1] = file}

StructuredShaped(row) == \A c \in SeedColumns : HasKey(row, c)

FallbackShaped(row) == Keys(row) = <<"filename", "page", "ocr_result">>

\* C11: a result of the recognition has the key documents alone, with at
\* least one document, exactly when the response of the API has documents,
\* and the keys text and pages alone otherwise; when process_folder has
\* returned, the rows of a file with documents all have the four seed
\* columns and the rows of a file with pages are all filename, page,
\* ocr_result rows, so no file has rows of both shapes.
C11_OneShapePerFile ==
    /\ \A resp \in {r \in ApiResponses : r.kind = "ok"} :
          IF resp.documents # <<>>
          THEN /\ DOMAIN CallAzureApi(resp) = {"documents"}
               /\ Len(CallAzureApi(resp).documents) = Len(resp.documents)
          ELSE /\ DOMAIN CallAzureApi(resp) = {"text", "pages"}
               /\ Len(CallAzureApi(resp).pages) = Len(resp.pages)
    /\ Returned =>
          \A k \in 1..Len(recognized) :
             LET result == recognized[k].result
                 rows == RowsOfFile(recognized[k].file)
             IN  /\ \/ result = NoResult
                    \/ DOMAIN result = {"documents"} /\ result.documents # <<>>
                    \/ DOMAIN result = {"text", "pages"}
                 /\ "documents" \in DOMAIN result =>
                       \A p \in rows : StructuredShaped(df.rows[p]) /\ ~FallbackShaped(df.rows[p])
                 /\ "pages" \in DOMAIN result =>
                       \A p \in rows : FallbackShaped(df.rows[p]) /\ ~StructuredShaped(df.rows[p])
                 /\ result = NoResult => rows = {}

\* The returned table has the rows of a file with documents and the rows of
\* a file with pages
C11_Witness ==
    /\ Returned
    /\ \E k1, k2 \in 1..Len(recognized) :
          /\ "documents" \in DOMAIN recognized[k1].result
          /\ Cardinality(RowsOfFile(recognized[k1].file)) = 3
          /\ "pages" \in DOMAIN recognized[k2].result
          /\ Cardinality(RowsOfFile(recognized[k2].file)) = 2

\* The documents or pages of the first k recognition calls together
RECURSIVE DocsOrPagesUpTo(_)
DocsOrPagesUpTo(k) ==
    IF k = 0 THEN 0
    ELSE DocsOrPagesUpTo(k - 1) + DocsOrPages(recognized[k].result)

\* C12: when process_folder has returned, every file that went through
\* recognition has no row when it has no result, and otherwise exactly one
\* row for each of its documents, or exactly one row for each of its pages,
\* that row being filename, page, ocr_result with the page's number counted
\* from 1 and its text; every row carries its file's name, every row is the
\* row of a recognized file, and the table has as many rows as the files
\* have documents and pages together.
C12_RowsPerFile ==
    Returned =>
        /\ Len(row_src) = Len(df.rows)
        /\ Len(df.rows) = DocsOrPagesUpTo(Len(recognized))
        /\ \A p \in 1..Len(df.rows) :
              \E k \in 1..Len(recognized) :
                 /\ row_src[p][1] = recognized[k].file
                 /\ Lookup(df.rows[p], "filename") = PyStr(listing[recognized[k].file])
        /\ \A k \in 1..Len(recognized) :
              LET result == recognized[k].result
                  file == recognized[k].file
              IN  /\ Cardinality(RowsOfFile(file)) = DocsOrPages(result)
                  /\ \A i \in 1..DocsOrPages(result) :
                        /\ Cardinality(RowsFrom(file, i - 1)) = 1
                        /\ "pages" \in DOMAIN result =>
                              \A p \in RowsFrom(file, i - 1) :
                                 df.rows[p] = << Item("filename", PyStr(listing[file])),
                                                 Item("page", PyNum(i)),
                                                 Item("ocr_result", PyStr(result.pages[i].text)) >>

\* Three files went through recognition and gave three rows of documents,
\* two rows of pages and no row
C12_Witness ==
    /\ Returned
    /\ Len(recognized) = 3
    /\ Len(df.rows) = 5
    /\ \E k1, k2, k3 \in 1..3 :
          /\ "documents" \in DOMAIN recognized[k1].result
          /\ "pages" \in DOMAIN recognized[k2].result
          /\ Len(recognized[k2].result.pages) = 2
          /\ DocsOrPages(recognized[k3].result) = 0

(***************************************************************************)
(* Claims about process_single_image and _call_azure_api (SpecRecognize).  *)
(***************************************************************************)
Mapped(ft) == ft \in DOMAIN model_mapping

\* C13: get_model_id gives the id of the mapping for the form type 6-5 that
\* is in the mapping and None for the form type 9-9 that is not; a call of
\* _call_azure_api with a form type that has no id raises the ValueError
\* of the lookup, without having called open on the file and without
\* having sent a request to the recognition API.
C13_UnmappedFailsBeforeOpen ==
    /\ GetModelId(<<"6", "-", "5">>) = PyStr(<<"m", "6", "5">>)
    /\ GetModelId(<<"9", "-", "9">>) = PyNone
    /\ \A ft \in FormTypes : Mapped(ft) <=> GetModelId(ft) # PyNone
    /\ (last_recognition.api_called /\ ~Mapped(last_recognition.form_type)) =>
          /\ last_recognition.caught = "ValueError"
          /\ ~last_recognition.opened
          /\ ~last_recognition.requested
          /\ last_recognition.ret = NoResult

\* _call_azure_api was called for a file that is there and can be opened,
\* with a form type that has no model id
C13_Witness ==
    /\ last_recognition.api_called
    /\ last_recognition.exists
    /\ last_recognition.open_ok
    /\ last_recognition.resp.kind = "ok"
    /\ ~Mapped(last_recognition.form_type)

\* C14: no exception leaves process_single_image; for a file that does not
\* exist it returns None and logs an error without calling the recognition
\* API; when the API call raises (no model id, file not readable, request
\* failed) it returns None and logs an error; otherwise it returns what
\* _call_azure_api made of the response, and logs no error.
C14_NeverRaises ==
    LET r == last_recognition
    IN  r # NoRecognition =>
           /\ r.escaped = ""
           /\ ~r.exists =>
                 /\ r.ret = NoResult
                 /\ r.logged
                 /\ ~r.api_called /\ ~r.opened /\ ~r.requested
           /\ (r.exists /\ (~Mapped(r.form_type) \/ ~r.open_ok \/ r.resp.kind = "raise")) =>
                 /\ r.ret = NoResult
                 /\ r.logged
                 /\ r.caught # ""
           /\ (r.exists /\ Mapped(r.form_type) /\ r.open_ok /\ r.resp.kind = "ok") =>
                 /\ r.ret = CallAzureApi(r.resp)
                 /\ r.ret # NoResult
                 /\ ~r.logged
           /\ r.open_ok => r.ret = ProcessSingleImage(r.exists, r.resp, r.form_type)

\* The request of a call for a file that is there raised, and the call
\* returned None
C14_Witness ==
    /\ last_recognition.exists
    /\ last_recognition.requested
    /\ last_recognition.caught = "ApiError"
    /\ last_recognition.logged
    /\ last_recognition.ret = NoResult

(***************************************************************************)
(* Claims about analyze_receipt_image (SpecAnalyze).                       *)
(***************************************************************************)
ElevenFields ==
    { "payee_name", "payee_address", "payment_date", "payment_purpose",
      "validity_score", "validity_reason", "payee_detail", "transparency_score",
      "alternative_suggestion", "news_value_potential_score",
      "news_value_potential_reason" }

\* The call could not go through: the image was not encoded, the request
\* raised, the content was no JSON, or the JSON value was no object
FlowFailed(a) == ~a.encode_ok \/ a.vresp.kind \in {"raise", "malformed", "notdict"}

\* C15: no exception leaves analyze_receipt_image, and whenever a step of
\* the flow fails (encoding the image, the request, parsing the JSON, reading
\* the parsed value for the enrichment) it returns a record of exactly the
\* 11 named fields, each the error sentinel; the record that process_folder
\* is given for a failed analysis is that record.
C15_FailureGivesErrorRecord ==
    /\ Cardinality(ElevenFields) = 11
    /\ last_analysis.escaped = ""
    /\ (last_analysis # NoAnalysis /\ FlowFailed(last_analysis)) =>
          /\ DOMAIN last_analysis.ret = ElevenFields
          /\ \A k \in ElevenFields : last_analysis.ret[k] = ERR
          /\ last_analysis.logged
          /\ ~last_analysis.enriched
    /\ {ReceiptError[i].k : i \in 1..Len(ReceiptError)} = ElevenFields
    /\ \A i \in 1..Len(ReceiptError) : ReceiptError[i].v = PyStr(ErrChars)

\* The parsed answer of the vision model was no object, after the cache of
\* the enrichment service had been filled by an earlier call
C15_Witness ==
    /\ last_analysis.encode_ok
    /\ last_analysis.vresp.kind = "notdict"
    /\ last_analysis.failure = "get"
    /\ DOMAIN cache # {}

(***************************************************************************)
(* Claims about receipts in process_folder (SpecFolder).                   *)
(***************************************************************************)
AnalysedFor(file, doc_idx) ==
    \E a \in 1..Len(analyses) : analyses[a].file = file /\ analyses[a].doc = doc_idx

\* C16, as stated: when process_folder has returned, a document whose crop
\* was not saved has no call of the analyzer, and has its row.
C16_FailedCropNoAnalysis ==
    Returned =>
        \A c \in 1..Len(crops) :
           ~crops[c].saved =>
              /\ ~AnalysedFor(crops[c].file, crops[c].doc)
              /\ Cardinality(RowsFrom(crops[c].file, crops[c].doc)) = 1

\* The crop of a document was not saved, the analyzer was called for the
\* document all the same, and the row is in the table
C16_Witness ==
    /\ Returned
    /\ \E c \in 1..Len(crops) :
          /\ ~crops[c].saved
          /\ AnalysedFor(crops[c].file, crops[c].doc)
          /\ Cardinality(RowsFrom(crops[c].file, crops[c].doc)) = 1

\* C17, as stated: when process_folder has returned, the row of a document
\* whose receipt analysis failed has the columns payee_name, payee_address,
\* payment_date_extracted and payment_purpose, each the empty string.
C17_FailedAnalysisGivesEmptyColumns ==
    Returned =>
        \A a \in 1..Len(analyses) :
           analyses[a].info = ReceiptError =>
              /\ Cardinality(RowsFrom(analyses[a].file, analyses[a].doc)) = 1
              /\ \A p \in RowsFrom(analyses[a].file, analyses[a].doc) :
                    \A c \in AnalysisColumns :
                       /\ HasKey(df.rows[p], c)
                       /\ Lookup(df.rows[p], c) = PyStr(<<>>)

\* The analysis of a document failed; its row is in the table and its four
\* columns hold the error sentinel
C17_Witness ==
    /\ Returned
    /\ \E a \in 1..Len(analyses) :
          /\ analyses[a].info = ReceiptError
          /\ \E p \in RowsFrom(analyses[a].file, analyses[a].doc) :
                \A c \in AnalysisColumns : Lookup(df.rows[p], c) = PyStr(ErrChars)

(***************************************************************************)
(* Claims about the error record and the statistics of the enrichment      *)
(* service (SpecCache).                                                    *)
(***************************************************************************)
\* The texts of the exceptions the environment raises
ErrorMessages == {r.msg : r \in {x \in Responses : x.kind # "json"}}

BlankOnError == {"establishment_year", "capital", "employees", "website"}

\* C18, as the code has it: the record returned by a failed enrich_payee_info
\* has business_type equal to the error sentinel, business_description equal
\* to the fixed text of line 109, notes equal to the message of the
\* exception, and establishment_year, capital, employees and website empty.
C18_ErrorRecord ==
    Failed(last_call) =>
        /\ last_call.ret.business_type = ERR
        /\ last_call.ret.business_description = FETCH_ERROR
        /\ FETCH_ERROR # ""
        /\ last_call.ret.notes \in ErrorMessages
        /\ \A k \in BlankOnError : last_call.ret[k] = ""

\* C18, as stated: every text field of the record of a failed call other
\* than business_type and notes, business_description among them, is empty.
C18_OtherTextFieldsEmpty ==
    Failed(last_call) =>
        /\ last_call.ret.business_type = ERR
        /\ last_call.ret.notes \in ErrorMessages
        /\ \A k \in BlankOnError \cup {"business_description"} : last_call.ret[k] = ""

\* A request whose answer was no JSON, made while the cache held an entry
C18_Witness ==
    /\ Failed(last_call)
    /\ last_call.ret.notes = "Expecting value"
    /\ DOMAIN cache # {}

\* The keys the environment can ask for
PayeeKeys == {CacheKey(n, a) : n \in PayeeNames, a \in PayeeAddresses}

\* What a report must be in the current state: the total counts the keys
\* held, the active count the keys a caller would be served from the cache
\* now, and the expired count the rest
StatsAsClaimed(s) ==
    /\ s.total_cached = Cardinality({k \in PayeeKeys : k \in DOMAIN cache})
    /\ s.active_cache = Cardinality({k \in PayeeKeys : CacheHit(k, now)})
    /\ s.total_cached = s.active_cache + s.expired_cache
    /\ s.total_cached >= 0 /\ s.active_cache >= 0 /\ s.expired_cache >= 0

\* No key leaves the cache, a key enters it only by a call that stored it,
\* and a call that stored leaves its key in the cache
KeysOnlyGrowByStores ==
    /\ DOMAIN cache \subseteq DOMAIN cache'
    /\ \A k \in DOMAIN cache' \ DOMAIN cache :
          /\ last_call'.stored
          /\ k = CacheKey(last_call'.name, last_call'.address)
    /\ (NextCallMade /\ last_call'.stored) =>
          CacheKey(last_call'.name, last_call'.address) \in DOMAIN cache'

\* A report made by this step is the report of the state it was made in,
\* and making it changes neither the maps nor the clock
ReportIsOfItsState ==
    last_stats' # last_stats =>
        /\ last_stats'.called
        /\ StatsAsClaimed(last_stats'.stats)
        /\ UNCHANGED cacheVars

\* C19: the cache starts empty, no step evicts a key and a key enters only
\* when a call stored it, so the keys held are the keys ever successfully
\* enriched; in every state export_cache_stats reports their number as the
\* total, the number of them with now < expiry as the active count, and an
\* expired count with total = active + expired, all three non-negative.
C19_CacheStatistics ==
    /\ DOMAIN cache = {}
    /\ [](DOMAIN cache = DOMAIN cache_expiry /\ StatsAsClaimed(ExportCacheStats))
    /\ [][KeysOnlyGrowByStores /\ ReportIsOfItsState]_vars

\* A report of two keys held, made at the very hour the older one expires
C19_Witness ==
    /\ last_stats.called
    /\ last_stats.at = now
    /\ last_stats.stats = [total_cached |-> 2, active_cache |-> 1, expired_cache |-> 1]
    /\ \E k \in DOMAIN cache_expiry : cache_expiry[k] = now

(***************************************************************************)
(* Claims about the merge of the enrichment into the analysis              *)
(* (SpecAnalyze).                                                          *)
(***************************************************************************)
\* The name is one the claim says is looked up
Enrichable(name) == name # "" /\ name # UNKNOWN /\ name # ERR

SummaryFields == <<"business_type", "business_description", "establishment_year", "website">>

SummaryLabel ==
    [ business_type |-> "type: ", business_description |-> "desc: ",
      establishment_year |-> "est: ", website |-> "Web: " ]

\* The places of SummaryFields whose field of info is not empty, in order
RECURSIVE FilledUpTo(_, _)
FilledUpTo(info, n) ==
    IF n = 0 THEN <<>>
    ELSE IF Get(info, SummaryFields[n], "") # ""
         THEN Append(FilledUpTo(info, n - 1), SummaryFields[n])
         ELSE FilledUpTo(info, n - 1)

\* The first n of the fields, labelled and joined by " / "
RECURSIVE SummaryOf(_, _, _)
SummaryOf(info, fields, n) ==
    IF n = 0 THEN ""
    ELSE (IF n = 1 THEN "" ELSE SummaryOf(info, fields, n - 1) \o " / ")
         \o SummaryLabel[fields[n]] \o info[fields[n]]

\* What a call that did not fail returned, against the answer of the model
MergedAsClaimed(a) ==
    LET obj    == a.vresp.obj
        filled == FilledUpTo(a.enriched_info, Len(SummaryFields))
    IN  IF Enrichable(Get(obj, "payee_name", ""))
        THEN /\ a.enriched
             /\ DOMAIN a.ret = DOMAIN obj \cup {"payee_detail"}
             /\ \A k \in DOMAIN obj \ {"payee_detail"} : a.ret[k] = obj[k]
             /\ a.ret["payee_detail"] =
                   IF filled # <<>>
                   THEN SummaryOf(a.enriched_info, filled, Len(filled))
                   ELSE Get(obj, "payee_detail", "")
        ELSE /\ ~a.enriched
             /\ a.ret = obj

\* A call that did not fail looked the payee up, with the name and address
\* of the answer and merged what the service returned, when the name is
\* enrichable; otherwise it left the service alone
InvokedExactlyWhenEnrichable ==
    (last_analysis' # last_analysis /\ ~FlowFailed(last_analysis')) =>
        LET obj == last_analysis'.vresp.obj
        IN  IF Enrichable(Get(obj, "payee_name", ""))
            THEN /\ last_call'.name = Get(obj, "payee_name", "")
                 /\ last_call'.address = Get(obj, "payee_address", "")
                 /\ last_call'.at = now
                 /\ last_analysis'.enriched_info = last_call'.ret
            ELSE UNCHANGED cacheVars

\* C20: the enrichment service is invoked exactly when the model's
\* payee_name is non-empty and neither sentinel; when invoked, payee_detail
\* becomes the " / "-joined labelled non-empty fields among business_type,
\* business_description, establishment_year and website, in that order, or
\* keeps the model's own value when all four are empty, every other field
\* being as the model gave it; when not invoked the model's result is
\* returned unchanged.
C20_PayeeDetailMerge ==
    /\ []((last_analysis # NoAnalysis /\ ~FlowFailed(last_analysis)) =>
             MergedAsClaimed(last_analysis))
    /\ [][InvokedExactlyWhenEnrichable]_vars

\* The service answered with three of the four fields, and the summary
\* replaced the model's own payee_detail
C20_Witness ==
    /\ last_analysis.enriched
    /\ Get(last_analysis.vresp.obj, "payee_detail", "") = "own"
    /\ Get(last_analysis.enriched_info, "website", "x") = ""
    /\ Get(last_analysis.ret, "payee_detail", "") = "type: retail / desc: shop / est: 1990"

(***************************************************************************)
(* Claims about the keys and the use_cache flag of the enrichment service  *)
(* (SpecCache).                                                            *)
(***************************************************************************)
\* The call of this step was served, without a request, from the entry the
\* call before it had just stored
ServedFromEntryOfLastCall ==
    /\ NextCallMade
    /\ last_call.stored
    /\ ~last_call'.requested
    /\ CacheKey(last_call'.name, last_call'.address) = CacheKey(last_call.name, last_call.address)

\* C21, as stated: a call is served the record another call cached only if
\* the two calls have the same name and the same address.
C21_EntrySharedOnlyByEqualPairs ==
    [][ServedFromEntryOfLastCall =>
          /\ last_call'.name = last_call.name
          /\ last_call'.address = last_call.address]_vars

\* A call made with use_cache=false makes a request, whatever the cache holds
BypassAlwaysRequests ==
    (NextCallMade /\ ~last_call'.use_cache) => last_call'.requested

\* When its request succeeds, the entry of its key is the new record and
\* expires 24 hours after the record's date
BypassStoresAndResets ==
    (NextCallMade /\ ~last_call'.use_cache /\ last_call'.stored) =>
        LET key == CacheKey(last_call'.name, last_call'.address)
        IN  /\ cache'[key] = last_call'.ret
            /\ last_call'.ret.enrichment_date = now'
            /\ cache_expiry'[key] = now' + CacheHours

\* The next call for the same pair, made with use_cache=true less than 24
\* hours after it, is answered with that record and without a request
BypassedRecordIsServed ==
    ( /\ NextCallMade
      /\ ~last_call.use_cache /\ last_call.stored
      /\ last_call'.use_cache
      /\ SamePayee(last_call, last_call')
      /\ last_call'.at < last_call.at + CacheHours )
    => (~last_call'.requested /\ last_call'.ret = last_call.ret)

\* C27: a call with use_cache=false always makes a request, also when an
\* unexpired entry exists for its key; when the request succeeds the entry is
\* overwritten and its expiry set to 24 hours after the store, and the next
\* call for the pair with use_cache=true within 24 hours gets the new
\* record without a request.
C27_BypassSkipsOnlyTheRead ==
    [][BypassAlwaysRequests /\ BypassStoresAndResets /\ BypassedRecordIsServed]_vars

\* A use_cache=false call made at hour 12 stored its record, and the entry
\* of its key now expires at hour 36
C27_Witness ==
    /\ ~last_call.use_cache
    /\ last_call.stored
    /\ last_call.at = TickHours
    /\ now = TickHours
    /\ cache[CacheKey(last_call.name, last_call.address)] = last_call.ret
    /\ cache_expiry[CacheKey(last_call.name, last_call.address)] = TickHours + CacheHours

(***************************************************************************)
(* Claims about the gate of the analysis, the seed columns and the crop    *)
(* paths in process_folder (SpecFolder).                                   *)
(***************************************************************************)
\* The five conditions under which the claim allows the analyzer call
GateOpen(fields) ==
    /\ extract_receipts
    /\ analyze_receipts
    /\ receipt_analyzer
    /\ HasKey(fields, "receipt_image_area")
    /\ Truthy(Lookup(fields, "receipt_image_area"))
    /\ ParseCoordinates(Lookup(fields, "receipt_image_area").s) # None

\* The analysis columns of the row are those the document's own fields gave
OnlyOwnAnalysisColumns(row, fields) ==
    \A c \in AnalysisColumns :
       HasKey(row, c) => (HasKey(fields, c) /\ Lookup(row, c) = Lookup(fields, c))

\* C22: when process_folder has returned, every call of the analyzer was
\* made for a recognized document, with extract_receipts and
\* analyze_receipts true, an analyzer configured, and a non-empty
\* receipt_image_area of the document that parsed to a box; a document for
\* which one of these fails has no analyzer call, and its row has none of
\* the columns payee_name, payee_address, payment_date_extracted and
\* payment_purpose except those that are fields of the document itself.
C22_AnalysisIsGated ==
    Returned =>
    /\ \A a \in 1..Len(analyses) :
          \E k \in 1..Len(recognized) :
             /\ recognized[k].file = analyses[a].file
             /\ "documents" \in DOMAIN recognized[k].result
             /\ analyses[a].doc + 1 \in 1..Len(recognized[k].result.documents)
             /\ GateOpen(recognized[k].result.documents[analyses[a].doc + 1].fields)
    /\ \A k \in 1..Len(recognized) :
          "documents" \in DOMAIN recognized[k].result =>
             \A i \in 1..Len(recognized[k].result.documents) :
                LET fields == recognized[k].result.documents[i].fields
                IN  ~GateOpen(fields) =>
                       /\ ~AnalysedFor(recognized[k].file, i - 1)
                       /\ \A p \in RowsFrom(recognized[k].file, i - 1) :
                             OnlyOwnAnalysisColumns(df.rows[p], fields)

\* With an analyzer configured and crops made, analyze_receipts was false:
\* no call of the analyzer, and the only payee_name in the table is the
\* field of a document
C22_Witness ==
    /\ Returned
    /\ extract_receipts /\ ~analyze_receipts /\ receipt_analyzer
    /\ crops # <<>>
    /\ analyses = <<>>
    /\ \E p \in 1..Len(df.rows) :
          HasKey(df.rows[p], "payee_name") /\ Lookup(df.rows[p], "payee_name") = PyStr(<<"p">>)

\* C25, as stated: when process_folder has returned, every row of a
\* structured document has folder_name, filename, model_name and type
\* equal to the folder's base name, the file's name, the model id of the
\* form type and the form type, whatever the fields of the document are.
C25_SeedColumnsAuthoritative ==
    Returned =>
        \A k \in 1..Len(recognized) :
           "documents" \in DOMAIN recognized[k].result =>
              \A i \in 1..Len(recognized[k].result.documents) :
                 \A p \in RowsFrom(recognized[k].file, i - 1) :
                    \A c \in SeedColumns :
                       /\ HasKey(df.rows[p], c)
                       /\ Lookup(df.rows[p], c) = SeedValue(c, listing[recognized[k].file])

\* The row of a document that has a field named type holds that field's
\* value, not the form type
C25_Witness ==
    /\ Returned
    /\ \E k \in 1..Len(recognized) :
          /\ "documents" \in DOMAIN recognized[k].result
          /\ \E i \in 1..Len(recognized[k].result.documents) :
                /\ HasKey(recognized[k].result.documents[i].fields, "type")
                /\ \E p \in RowsFrom(recognized[k].file, i - 1) :
                      /\ Lookup(df.rows[p], "type") =
                            Lookup(recognized[k].result.documents[i].fields, "type")
                      /\ Lookup(df.rows[p], "type") # PyStr(form_type)

\* C26, as stated: when process_folder has returned, the crops made for two
\* different (file, document index) pairs have different file names in
\* receipt_images, and so have the images the analyzer was given.
C26_CropPathsDistinct ==
    Returned =>
        /\ \A c, d \in 1..Len(crops) :
              <<crops[c].file, crops[c].doc>> # <<crops[d].file, crops[d].doc>>
                 => crops[c].name # crops[d].name
        /\ \A a, b \in 1..Len(analyses) :
              <<analyses[a].file, analyses[a].doc>> # <<analyses[b].file, analyses[b].doc>>
                 => analyses[a].name # analyses[b].name

\* Two files whose names differ only in the extension had a crop each, saved
\* under one name
C26_Witness ==
    /\ Returned
    /\ \E c, d \in 1..Len(crops) :
          /\ crops[c].file # crops[d].file
          /\ listing[crops[c].file] # listing[crops[d].file]
          /\ crops[c].name = crops[d].name
          /\ crops[c].saved /\ crops[d].saved

(***************************************************************************)
(* Claims about retry (SpecRetry).                                         *)
(***************************************************************************)
RECURSIVE Pow(_, _)
Pow(b, n) == IF n = 0 THEN 1 ELSE b * Pow(b, n - 1)

\* What the claim says of a call of the wrapper, at any moment of it
RetryAsClaimed(r) ==
    /\ r.max_attempts >= 1
    /\ r.invocations <= r.max_attempts
    /\ r.invocations = Len(r.errors) + (IF r.pc = "returned" THEN 1 ELSE 0)
    /\ \A i \in 1..Len(r.sleeps) : r.sleeps[i] = r.delay * Pow(r.backoff, i - 1)
    /\ r.pc = "loop" =>
          /\ r.invocations < r.max_attempts
          /\ Len(r.sleeps) = Len(r.errors)
    /\ r.pc = "returned" =>
          /\ r.value = "v"
          /\ r.raised = ""
          /\ Len(r.sleeps) = Len(r.errors)
    /\ r.pc = "raised" =>
          /\ r.invocations = r.max_attempts
          /\ Len(r.errors) = r.max_attempts
          /\ r.raised = r.errors[r.max_attempts]
          /\ Len(r.sleeps) = r.max_attempts - 1

\* C24: the wrapped function is invoked at most max_attempts times; the
\* value of the first successful invocation is returned, after one wait
\* per failure before it and with no invocation or wait after it; when
\* all max_attempts invocations fail the exception of the last one is
\* raised, after exactly max_attempts - 1 waits of delay, delay*backoff,
\* delay*backoff^2, ..., none of them after the last failure.
C24_RetryContract ==
    /\ [](retry_run.pc # "idle" => RetryAsClaimed(retry_run))
    /\ [][retry_run.pc \in {"returned", "raised"} => UNCHANGED retry_run]_vars

\* Three invocations failed, with waits of 3 and 6, and the exception of
\* the third was raised, not that of the second
C24_Witness ==
    /\ retry_run.pc = "raised"
    /\ retry_run.max_attempts = 3
    /\ retry_run.sleeps = <<3, 6>>
    /\ retry_run.errors = <<"e1", "e2", "e1">>
    /\ retry_run.raised = "e1"

(***************************************************************************)
(* Claims about batch_enrich_payees (SpecBatch).                           *)
(***************************************************************************)
\* The batches cut from place i on with the size bs, one after the other
RECURSIVE BatchesFrom(_, _, _)
BatchesFrom(payees, i, bs) ==
    IF i >= Len(payees) THEN <<>>
    ELSE BatchSlice(payees, i, bs) \o BatchesFrom(payees, i + bs, bs)

\* The payee with the fields of the record written over it
UpdatedWith(payee, info, result) ==
    /\ DOMAIN result = DOMAIN payee \cup DOMAIN info
    /\ \A k \in DOMAIN info : result[k] = info[k]
    /\ \A k \in DOMAIN payee \ DOMAIN info : result[k] = payee[k]

\* What the claim says of a call of batch_enrich_payees, at any moment of
\* it; nothing in it depends on batch_size
BatchAsClaimed(b) ==
    LET n == Len(b.enriched_results)
    IN  /\ n <= Len(b.payees)
        /\ Len(b.calls) = n
        /\ b.sleeps = n
        /\ \A k \in 1..n :
              /\ b.calls[k].name = Get(b.payees[k], "name", "")
              /\ b.calls[k].address = Get(b.payees[k], "address", "")
              /\ b.calls[k].use_cache
              /\ UpdatedWith(b.payees[k], b.calls[k].ret, b.enriched_results[k])
        /\ (b.pc = "loop" /\ b.i < Len(b.payees)) => b.i + b.j = n
        /\ (b.pc = "loop" /\ b.i >= Len(b.payees)) => n = Len(b.payees)
        /\ b.pc = "done" => n = Len(b.payees)
        /\ \A bs \in 1..MaxBatchSize : BatchesFrom(b.payees, 0, bs) = b.payees

\* C23: whatever batch_size >= 1 is, the batches cut from the list are the
\* list itself in order; the k-th enrich_payee_info call is made for the
\* k-th payee, one call per step; and the result has, at place k, the k-th
\* payee updated with the record of that call, with as many elements as
\* the list when the call returns.
C23_BatchSizeIndependent ==
    /\ [](batch_run.pc # "idle" => BatchAsClaimed(batch_run))
    /\ [][batch_run' # batch_run =>
             \/ Len(batch_run'.calls) = Len(batch_run.calls) + 1
             \/ batch_run'.pc = "done" /\ batch_run'.calls = batch_run.calls]_vars

\* Three payees in batches of two: the second was served from the cache,
\* kept its own id and had its own notes replaced by the record's
C23_Witness ==
    /\ batch_run.pc = "done"
    /\ batch_run.batch_size = 2
    /\ Len(batch_run.payees) = 3
    /\ ~batch_run.calls[2].requested
    /\ Get(batch_run.payees[2], "notes", "") = "mine"
    /\ batch_run.enriched_results[2].id = "7"
    /\ batch_run.enriched_results[2].notes = ""
    /\ batch_run.calls[3].requested

====
